---- MODULE Spec2Model ----
(***************************************************************************)
(* Model of astrbot_plugin_youshusearch.                                   *)
(*                                                                         *)
(* Part 1 (specification Spec): the /hs, /ys and random-novel command     *)
(* handlers of src/main.py, one step per network suspension point.         *)
(* Part 2 (specification SpecAdapter): the source adapters of src/sources. *)
(* Part 3 (specification SpecState): the session state manager, as the     *)
(* specification describes it.                                             *)
(* Part 4 (specification SpecQidian): the canonical-catalog lookups of     *)
(* src/sources/qidian_source.py.                                           *)
(* Part 5 (specification SpecConcurrent): two commands of src/main.py run  *)
(* as concurrent tasks.                                                    *)
(* Part 6 (specification SpecCommand): a command that keeps session state, *)
(* as the specification describes it.                                      *)
(***************************************************************************)
EXTENDS Integers, Sequences, FiniteSets, TLC

VARIABLES
    api,            \* self.api (1: ypshuo JSON API, 2: youshu.me HTML)
    cmd,            \* the command being handled: "none", "hs", "ys", "random"
    pc,             \* position of the handler
    args,           \* command_parts[1:] of the invocation
    book_name,      \* keyword: sequence of tokens (joined with " " in the code)
    item_index,     \* <<>> is None, <<n>> is the integer n
    page_to_fetch,
    search_results, \* list of raw books of the page last fetched
    max_pages,
    novel_id,       \* id whose detail page was requested (0: none)
    reviews,        \* hs: number of reviews collected
    session,        \* aiohttp.ClientSession of the handler: "none","open","closed"
    msgs,           \* messages yielded to the user, in order
    reqs,           \* network requests issued, in order
    search_info,    \* what the last search of this command returned
    fetched,        \* number of searches of this command that returned
    latest_id,      \* random novel: what _get_latest_novel_id returned
    attempt,        \* random novel: detail fetches started (loop variable + 1)
    failed,         \* how the last request that returned had failed: <<which, how>>
    adapter,        \* adapter part: the call in progress / its result
    result,
    user_states,    \* state manager: user id -> UserSearchState
    resolved,       \* state manager: the last resolve_by_number call and its value
    pending,        \* state manager: the command that uses it, in progress
    parked          \* the locals of a second command, suspended at an await

hvars == <<api, cmd, pc, args, book_name, item_index, page_to_fetch,
           search_results, max_pages, novel_id, reviews, session, msgs, reqs,
           search_info, fetched, latest_id, attempt, failed>>
avars == <<adapter, result>>
svars == <<user_states, resolved>>
cvars == <<pending, parked>>
vars == <<api, cmd, pc, args, book_name, item_index, page_to_fetch,
          search_results, max_pages, novel_id, reviews, session, msgs, reqs,
          search_info, fetched, latest_id, attempt, failed, adapter, result,
          user_states, resolved, pending, parked>>

----------------------------------------------------------------------------
(* Bounds of the model *)

MaxItem == 25       \* largest item number a user types
MaxPageArg == 3     \* largest explicit page a user types
MaxBooks == 5       \* longest list an upstream page carries
MaxPages == 2       \* largest total page count an upstream reports
MaxReviews == 2     \* most reviews a comments reply carries
MaxLatest == 3      \* largest novel id a home page lists

----------------------------------------------------------------------------
(* Python values *)

None == <<>>                    \* Optional[int] as a sequence of length <= 1
Some(n) == <<n>>
IsNone(o) == o = <<>>
Val(o) == o[1]

NoResult == [none |-> TRUE, books |-> <<>>, total |-> 0]
SearchInfo(books, total) == [none |-> FALSE, books |-> books, total |-> total]

(* Tokens of the command text after split(): a word, a string of digits, or
   "-" followed by digits. *)
Word(s) == [k |-> "word", s |-> s, n |-> 0]
Num(n) == [k |-> "num", s |-> "", n |-> n]
DashNum(n) == [k |-> "dashnum", s |-> "", n |-> n]

isdigit(t) == t.k = "num"
IsDashDigits(t) == t.k = "dashnum"

LastTokens ==
    {Word("Foo"), Word("next"), Word("prev")}
      \cup {Num(n) : n \in 0..MaxItem}
      \cup {DashNum(n) : n \in 0..MaxPageArg}

\* A lone argument is the keyword whatever it looks like.
SoloTokens == {Word("Foo"), Word("next"), Num(MaxItem), DashNum(MaxPageArg)}

ArgLists ==
    {<<>>} \cup {<<t>> : t \in SoloTokens}
           \cup {<<Word("Foo"), t>> : t \in LastTokens}

----------------------------------------------------------------------------
(* Argument parsing, main.py 197-209 (/hs) and 629-641 (/ys): same code *)

ParseArgs(a) ==
    LET last == a[Len(a)] IN
    IF Len(a) > 1 /\ IsDashDigits(last)
      THEN [book_name |-> SubSeq(a, 1, Len(a) - 1),
            page_to_list |-> IF last.n = 0 THEN 1 ELSE last.n,
            item_index |-> None]
    ELSE IF Len(a) > 1 /\ isdigit(last)
      THEN [book_name |-> SubSeq(a, 1, Len(a) - 1),
            page_to_list |-> 1,
            item_index |-> IF last.n = 0 THEN None ELSE Some(last.n)]
    ELSE [book_name |-> a, page_to_list |-> 1, item_index |-> None]

----------------------------------------------------------------------------
(* Pagination arithmetic *)

HsResultsPerPage == 20

YsResultsPerPage(a) == IF a = 2 THEN 20 ELSE 15

ResultsPerPage(c, a) == IF c = "hs" THEN HsResultsPerPage ELSE YsResultsPerPage(a)

IndexOnPageOffByOne(n, P) == n % P

IndexOnPage(n, P) == (n - 1) % P

CorrectPage(n, P) == ((n - 1) \div P) + 1

StartNumPageTimesP(p, P) == p * P + 1

StartNum(p, P) == (p - 1) * P + 1

----------------------------------------------------------------------------
(* Messages and requests *)

Msg(kind) == [kind |-> kind, page |-> 0, first |-> 0, count |-> 0, item |-> 0]
PageMsg(kind, p) == [Msg(kind) EXCEPT !.page = p]
ItemMsg(kind, n, p) == [Msg(kind) EXCEPT !.item = n, !.page = p]
ListMsg(p, first, count) ==
    [Msg("list") EXCEPT !.page = p, !.first = first, !.count = count]

SearchReq(kw, p) == [kind |-> "search", keyword |-> kw, page |-> p, id |-> 0]
DetailReq(id) == [kind |-> "detail", keyword |-> <<>>, page |-> 0, id |-> id]
CommentsReq(id) == [kind |-> "comments", keyword |-> <<>>, page |-> 0, id |-> id]
ImageReq(id) == [kind |-> "image", keyword |-> <<>>, page |-> 0, id |-> id]

----------------------------------------------------------------------------
(* Upstream responses to a search request.  The books of page p carry ids that
   name the page and the position, so that lists of different pages differ. *)

BookId(p, i) == p * (MaxBooks + 2) + i
PageOfId(id) == id \div (MaxBooks + 2)

\* odd = "noid": the first book carries no id; "nomatch": the first result
\* block of an HTML list page does not match the name pattern.
PageBooks(p, n, odd) ==
    [i \in 1..n |-> [id |-> IF i = 1 /\ odd = "noid" THEN 0 ELSE BookId(p, i),
                     matched |-> ~(i = 1 /\ odd = "nomatch")]]

Upstream(t, success, data, total) ==
    [t |-> t, success |-> success, data |-> data, total |-> total]

UpstreamError == Upstream("error", FALSE, <<>>, None)

\* JSON search APIs (uaa and ypshuo): a transport/decoding error, a reply that
\* reports failure, or a reply with a data list and a page count (or none).
JsonUpstream(p) ==
    {UpstreamError, Upstream("json", FALSE, <<>>, None)}
      \cup {Upstream("json", TRUE, PageBooks(p, n, odd), tp) :
              n \in 0..MaxBooks, odd \in {"none", "noid"},
              tp \in {None} \cup {Some(k) : k \in 0..MaxPages}}

\* The youshu.me search URL answers with an HTML page: a result list (with or
\* without a readable total count), the page of one book (a redirect), or
\* neither; or the request fails.
YsHtmlResultsPerPage == 20

HtmlUpstream(p) ==
    {UpstreamError, Upstream("neither", FALSE, <<>>, None)}
      \cup {Upstream("redirect", TRUE, PageBooks(p, 1, odd), None) :
              odd \in {"none", "noid"}}
      \cup {Upstream("list", TRUE, PageBooks(p, n, odd), T) :
              n \in 0..MaxBooks, odd \in {"none", "nomatch"},
              T \in {None} \cup {Some(k) : k \in 0..(MaxPages * YsHtmlResultsPerPage)}}

----------------------------------------------------------------------------
(* _perform_hs_search, main.py 63-91 *)

PerformHsSearch(up) ==
    IF up.t = "error" THEN NoResult
    ELSE IF up.success
      THEN SearchInfo(up.data, IF IsNone(up.total) THEN 1 ELSE Val(up.total))
    ELSE SearchInfo(<<>>, 0)

(* _perform_search, main.py 282-375 *)

TotalPages(total_results, results_per_page) ==
    IF total_results > 0
      THEN (total_results + results_per_page - 1) \div results_per_page
      ELSE 1

PerformSearch(a, up) ==
    IF up.t = "error" THEN NoResult
    ELSE IF a = 1
      THEN IF up.success
             THEN SearchInfo(up.data, IF IsNone(up.total) THEN 1 ELSE Val(up.total))
             ELSE NoResult
    ELSE IF up.t = "list"
      THEN SearchInfo(SelectSeq(up.data, LAMBDA b : b.matched),
                      TotalPages(IF IsNone(up.total) THEN 0 ELSE Val(up.total),
                                 YsHtmlResultsPerPage))
    ELSE IF up.t = "redirect"
      THEN SearchInfo(up.data, 1)
    ELSE SearchInfo(<<>>, 0)

YsUpstream(a, p) == IF a = 1 THEN JsonUpstream(p) ELSE HtmlUpstream(p)

----------------------------------------------------------------------------
(* The command handlers.  Each action is the handler's code from one
   suspension point (a network request) to the next. *)

\* The last request that returned had not failed (or none returned yet).
NoFailure == <<"none", "none">>

InitHandler ==
    /\ cmd = "none" /\ pc = "idle" /\ args = <<>> /\ book_name = <<>>
    /\ item_index = None /\ page_to_fetch = 0 /\ search_results = <<>>
    /\ max_pages = 0 /\ novel_id = 0 /\ reviews = 0 /\ session = "none"
    /\ msgs = <<>> /\ reqs = <<>> /\ search_info = NoResult /\ fetched = 0
    /\ latest_id = None /\ attempt = 0 /\ failed = NoFailure

EndSessionOpen(m) ==
    /\ msgs' = msgs \o m
    /\ pc' = "done"
    /\ UNCHANGED <<reqs, novel_id, session>>

\* The handler ends: it yields the messages m and its session (if any) closes.
End(m) ==
    /\ msgs' = msgs \o m
    /\ pc' = "done"
    /\ session' = IF session = "open" THEN "closed" ELSE session
    /\ UNCHANGED <<reqs, novel_id>>

\* The handler issues the detail request for id and suspends.
FetchDetails(id) ==
    /\ novel_id' = id
    /\ reqs' = Append(reqs, DetailReq(id))
    /\ pc' = "detail"
    /\ UNCHANGED <<msgs, session>>

\* `search_info is None or not search_info[0]`, main.py 221, 261, 656
NotFoundOnlyNone(info) == info.none

NotFound(info) == info.none \/ info.books = <<>>

\* `search_results, _ = search_info`, main.py 264
RefetchedResultsStale(old, info) == old

RefetchedResults(old, info) == info.books

\* main.py 266-277 (/hs) and 688-697 (/ys): select the book at index_on_page.
\* An IndexError would be caught by the handler's `except Exception`.
SelectBookNoBoundCheck(results, index_on_page, page) ==
    IF ~(0 <= index_on_page /\ index_on_page < Len(results))
      THEN End(<<Msg("unknown_error")>>)
    ELSE IF results[index_on_page + 1].id = 0
      THEN End(<<ItemMsg("no_book_id", Val(item_index), page)>>)
    ELSE FetchDetails(results[index_on_page + 1].id)

SelectBookAlwaysFirst(results, index_on_page, page) ==
    FetchDetails(results[1].id)

SelectBook(results, index_on_page, page) ==
    IF ~(0 <= index_on_page /\ index_on_page < Len(results))
      THEN End(<<ItemMsg("item_not_exist", Val(item_index), page)>>)
    ELSE IF results[index_on_page + 1].id = 0
      THEN End(<<ItemMsg("no_book_id", Val(item_index), page)>>)
    ELSE FetchDetails(results[index_on_page + 1].id)

(* hs_search_command, main.py 188-219: parse and issue the first search *)
HsInvoke(a) ==
    /\ pc = "idle"
    /\ cmd' = "hs"
    /\ args' = a
    /\ UNCHANGED <<api, search_results, max_pages, novel_id, reviews, search_info,
                   fetched, adapter, result, user_states, resolved, cvars, latest_id, attempt, failed>>
    /\ IF Len(a) < 1
         THEN /\ msgs' = <<Msg("usage")>>
              /\ pc' = "done"
              /\ UNCHANGED <<book_name, item_index, page_to_fetch, session, reqs>>
       ELSE LET p == ParseArgs(a) IN
         /\ book_name' = p.book_name
         /\ item_index' = p.item_index
         /\ page_to_fetch' = p.page_to_list
         /\ IF p.book_name = <<>>
              THEN /\ msgs' = <<Msg("no_name")>>
                   /\ pc' = "done"
                   /\ UNCHANGED <<session, reqs>>
              ELSE /\ session' = "open"
                   /\ msgs' = <<>>
                   /\ reqs' = <<SearchReq(p.book_name, p.page_to_list)>>
                   /\ pc' = "search1"

(* hs_search_command, main.py 219-277: the first search returned *)
HsSearchRespond(up) ==
    /\ pc = "search1" /\ cmd = "hs"
    /\ search_info' = PerformHsSearch(up)
    /\ fetched' = fetched + 1
    /\ failed' = IF up.t = "error" THEN <<"search", "error">> ELSE NoFailure
    /\ UNCHANGED <<api, cmd, args, book_name, item_index, reviews, adapter, result, user_states, resolved, cvars, latest_id, attempt>>
    /\ IF NotFound(search_info')
         THEN /\ End(<<Msg("not_found")>>)
              /\ UNCHANGED <<page_to_fetch, search_results, max_pages>>
       ELSE
         /\ search_results' = search_info'.books
         /\ max_pages' = search_info'.total
         /\ IF page_to_fetch > max_pages' /\ max_pages' > 0
              THEN /\ End(<<PageMsg("page_not_exist", page_to_fetch)>>)
                   /\ UNCHANGED page_to_fetch
            ELSE IF IsNone(item_index)
              THEN /\ End(<<ListMsg(page_to_fetch,
                                    StartNum(page_to_fetch, HsResultsPerPage),
                                    Len(search_results'))>>)
                   /\ UNCHANGED page_to_fetch
            ELSE LET index_on_page == IndexOnPage(Val(item_index), HsResultsPerPage)
                     correct_page == CorrectPage(Val(item_index), HsResultsPerPage)
                 IN IF correct_page # page_to_fetch
                      THEN /\ msgs' = Append(msgs, ItemMsg("jumping", Val(item_index),
                                                           correct_page))
                           /\ page_to_fetch' = correct_page
                           /\ reqs' = Append(reqs, SearchReq(book_name, correct_page))
                           /\ pc' = "search2"
                           /\ UNCHANGED <<session, novel_id>>
                      ELSE /\ UNCHANGED page_to_fetch
                           /\ SelectBook(search_results', index_on_page, page_to_fetch)

(* hs_search_command, main.py 260-277: the search of the item's page returned *)
HsRefetchRespond(up) ==
    /\ pc = "search2" /\ cmd = "hs"
    /\ search_info' = PerformHsSearch(up)
    /\ fetched' = fetched + 1
    /\ failed' = IF up.t = "error" THEN <<"search", "error">> ELSE NoFailure
    /\ UNCHANGED <<api, cmd, args, book_name, item_index, reviews, page_to_fetch,
                   max_pages, adapter, result, user_states, resolved, cvars, latest_id, attempt>>
    /\ IF NotFound(search_info')
         THEN /\ End(<<PageMsg("not_found_on_page", page_to_fetch)>>)
              /\ UNCHANGED search_results
         ELSE /\ search_results' = RefetchedResults(search_results, search_info')
              /\ SelectBook(search_results',
                            IndexOnPage(Val(item_index), HsResultsPerPage),
                            page_to_fetch)

(* _get_and_format_hs_details, main.py 93-135 and 184-186: the detail page
   request returned (ok = FALSE: any exception of the request) *)
HsDetailRespond(ok) ==
    /\ pc = "detail" /\ cmd = "hs"
    /\ failed' = IF ok THEN NoFailure ELSE <<"detail", "error">>
    /\ UNCHANGED <<api, cmd, args, book_name, item_index, page_to_fetch,
                   search_results, max_pages, reviews, search_info, fetched,
                   adapter, result, user_states, resolved, cvars, latest_id, attempt>>
    /\ IF ok
         THEN /\ reqs' = Append(reqs, CommentsReq(novel_id))
              /\ pc' = "comments"
              /\ UNCHANGED <<msgs, session, novel_id>>
         ELSE End(<<Msg("detail_failed")>>)

(* _get_and_format_hs_details, main.py 136-182: the comments request returned
   n reviews, or failed (the failure is logged and swallowed) *)
HsCommentsRespond(ok, n) ==
    /\ pc = "comments" /\ cmd = "hs"
    /\ failed' = IF ok THEN NoFailure ELSE <<"comments", "error">>
    /\ UNCHANGED <<api, cmd, args, book_name, item_index, page_to_fetch,
                   search_results, max_pages, search_info, fetched, adapter, result, user_states, resolved, cvars, latest_id, attempt>>
    /\ reviews' = IF ok THEN n ELSE 0
    /\ End(<<[Msg("detail") EXCEPT !.item = novel_id, !.count = reviews']>>)

(* youshu_search_command, main.py 622-655: parse and issue the search *)
YsInvoke(a) ==
    /\ pc = "idle"
    /\ cmd' = "ys"
    /\ args' = a
    /\ UNCHANGED <<api, search_results, max_pages, novel_id, reviews, search_info,
                   fetched, adapter, result, user_states, resolved, cvars, latest_id, attempt, failed>>
    /\ IF Len(a) < 1
         THEN /\ msgs' = <<Msg("usage")>>
              /\ pc' = "done"
              /\ UNCHANGED <<book_name, item_index, page_to_fetch, session, reqs>>
       ELSE LET p == ParseArgs(a)
                results_per_page == YsResultsPerPage(api)
            IN
         /\ book_name' = p.book_name
         /\ item_index' = p.item_index
         /\ IF p.book_name = <<>>
              THEN /\ msgs' = <<Msg("no_name")>>
                   /\ pc' = "done"
                   /\ page_to_fetch' = p.page_to_list
                   /\ UNCHANGED <<session, reqs>>
            ELSE IF ~IsNone(p.item_index) /\ Val(p.item_index) = 0
              THEN /\ msgs' = <<Msg("index_from_1")>>
                   /\ pc' = "done"
                   /\ session' = "closed"
                   /\ page_to_fetch' = p.page_to_list
                   /\ UNCHANGED reqs
            ELSE /\ session' = "open"
                 /\ msgs' = <<>>
                 /\ page_to_fetch' = IF IsNone(p.item_index)
                                       THEN p.page_to_list
                                       ELSE CorrectPage(Val(p.item_index), results_per_page)
                 /\ reqs' = <<SearchReq(p.book_name, page_to_fetch')>>
                 /\ pc' = "search1"

SingleResultAnyPageCount(item, results, pages) == IsNone(item) /\ Len(results) = 1

\* `item_index is None and len(search_results) == 1 and max_pages == 1`,
\* main.py 663
SingleResult(item, results, pages) ==
    IsNone(item) /\ Len(results) = 1 /\ pages = 1

(* youshu_search_command, main.py 655-697: the search returned *)
YsSearchRespond(up) ==
    /\ pc = "search1" /\ cmd = "ys"
    /\ search_info' = PerformSearch(api, up)
    /\ fetched' = fetched + 1
    /\ failed' = IF up.t = "error" THEN <<"search", "error">> ELSE NoFailure
    /\ UNCHANGED <<api, cmd, args, book_name, item_index, reviews, page_to_fetch,
                   adapter, result, user_states, resolved, cvars, latest_id, attempt>>
    /\ IF NotFound(search_info')
         THEN /\ End(<<Msg("not_found")>>)
              /\ UNCHANGED <<search_results, max_pages>>
       ELSE
         /\ search_results' = search_info'.books
         /\ max_pages' = search_info'.total
         /\ IF page_to_fetch > max_pages' /\ max_pages' > 0
              THEN End(<<PageMsg("page_not_exist", page_to_fetch)>>)
            ELSE IF SingleResult(item_index, search_results', max_pages')
              THEN IF search_results'[1].id = 0
                     THEN End(<<Msg("no_book_id")>>)
                     ELSE FetchDetails(search_results'[1].id)
            ELSE IF IsNone(item_index)
              THEN End(<<ListMsg(page_to_fetch,
                                 StartNum(page_to_fetch, YsResultsPerPage(api)),
                                 Len(search_results'))>>)
            ELSE SelectBook(search_results',
                            IndexOnPage(Val(item_index), YsResultsPerPage(api)),
                            page_to_fetch)

(* _get_and_format_novel_details, main.py 554-620.  The detail page request
   ends in an HTTP status error, a timeout, another transport error, or a page;
   the page may or may not yield novel_name and image_url. *)
DetailOutcomes == {"http_404", "http_error", "timeout", "error", "ok"}

DetailPages == [name : BOOLEAN, image : BOOLEAN]

YsRaiseSilent == End(<<>>)

YsRaiseEscapes ==
    /\ pc' = "crashed"
    /\ session' = "closed"
    /\ UNCHANGED <<msgs, reqs, novel_id>>

\* An exception leaves _get_and_format_novel_details (lines 615-620 re-raise
\* it) and is caught at main.py 698-700.
YsRaise == End(<<Msg("unknown_error")>>)

YsDetailRespond(outcome, page) ==
    /\ pc = "detail" /\ cmd = "ys"
    /\ failed' = IF outcome = "ok" THEN NoFailure ELSE <<"detail", outcome>>
    /\ UNCHANGED <<api, cmd, args, book_name, item_index, page_to_fetch,
                   search_results, max_pages, reviews, search_info, fetched,
                   adapter, result, user_states, resolved, cvars, latest_id, attempt>>
    /\ IF outcome # "ok"
         THEN YsRaise
       ELSE IF ~page.name
         THEN YsRaise                 \* ValueError, line 565
       ELSE IF page.image
         THEN /\ reqs' = Append(reqs, ImageReq(novel_id))
              /\ pc' = "image"
              /\ UNCHANGED <<msgs, session, novel_id>>
       ELSE End(<<[Msg("detail") EXCEPT !.item = novel_id]>>)

(* main.py 598-612: the cover download returned *)
ImageOutcomes == {"ok", "client_error", "timeout", "error"}

YsImageRespond(outcome) ==
    /\ pc = "image" /\ cmd = "ys"
    /\ failed' = IF outcome = "ok" THEN NoFailure ELSE <<"image", outcome>>
    /\ UNCHANGED <<api, cmd, args, book_name, item_index, page_to_fetch,
                   search_results, max_pages, reviews, search_info, fetched,
                   adapter, result, user_states, resolved, cvars, latest_id, attempt>>
    /\ IF outcome = "ok"
         THEN End(<<[Msg("detail") EXCEPT !.item = novel_id, !.count = 1]>>)
       ELSE IF outcome \in {"client_error", "timeout"}
         THEN End(<<[Msg("detail_cover_failed") EXCEPT !.item = novel_id]>>)
       ELSE YsRaise

----------------------------------------------------------------------------
(* The random-novel command, main.py 702-737.  Its detail fetches are counted
   in attempt (the id being fetched is novel_id); they are not logged in reqs. *)

max_retries == 10

\* What the home page request of _get_latest_novel_id meets: an exception, or
\* a page that lists novel ids (id = the largest) or none.
LatestReplies ==
    {[t |-> "error", id |-> None], [t |-> "ok", id |-> None]}
      \cup {[t |-> "ok", id |-> Some(k)] : k \in 0..MaxLatest}

(* _get_latest_novel_id, main.py 377-409 *)
GetLatestNovelId(r) == IF r.t = "error" THEN None ELSE r.id

\* The exception that leaves _get_and_format_novel_details for a detail page
\* request (main.py 559-565, 615-620), "none" if it goes on.
DetailException(outcome, page) ==
    IF outcome = "http_404" THEN "ClientResponseError404"
    ELSE IF outcome = "http_error" THEN "ClientResponseError"
    ELSE IF outcome = "timeout" THEN "TimeoutError"
    ELSE IF outcome = "error" THEN "Exception"
    ELSE IF ~page.name THEN "ValueError"
    ELSE "none"

\* `random.randint(1, latest_id)`, main.py 716
RandomIdsFromZero(latest) == 0..latest

RandomIds(latest) == 1..latest

\* main.py 722-732: the except clauses that end in `continue`
RetriedAlways(exc) == TRUE

Retried(exc) == exc \in {"ClientResponseError404", "ValueError", "TimeoutError"}

\* `for attempt in range(max_retries)`: the loop goes on to another attempt
MoreAttemptsUnbounded(n) == TRUE

MoreAttempts(n) == n < max_retries

\* next iteration of the loop with random_id = id, or the final message after
\* the loop (main.py 715-717, 737)
RandomAttempt(id) ==
    IF MoreAttempts(attempt)
      THEN /\ attempt' = attempt + 1
           /\ novel_id' = id
           /\ pc' = "detail"
           /\ UNCHANGED <<msgs, session>>
      ELSE /\ msgs' = Append(msgs, Msg("random_not_found"))
           /\ pc' = "done"
           /\ session' = "closed"
           /\ UNCHANGED <<attempt, novel_id>>

(* youshu_random_command, main.py 702-707: the command starts *)
RandomInvoke ==
    /\ pc = "idle"
    /\ cmd' = "random"
    /\ session' = "open"
    /\ pc' = "latest"
    /\ UNCHANGED <<api, args, book_name, item_index, page_to_fetch, search_results,
                   max_pages, novel_id, reviews, msgs, reqs, search_info, fetched,
                   latest_id, attempt, failed, adapter, result, user_states, resolved, cvars>>

(* youshu_random_command, main.py 707-717: _get_latest_novel_id returned *)
RandomLatestRespond(r, id) ==
    /\ pc = "latest" /\ cmd = "random"
    /\ latest_id' = GetLatestNovelId(r)
    /\ failed' = IF r.t = "error" THEN <<"latest", "error">> ELSE NoFailure
    /\ UNCHANGED <<api, cmd, args, book_name, item_index, page_to_fetch,
                   search_results, max_pages, reviews, reqs, search_info, fetched,
                   adapter, result, user_states, resolved, cvars>>
    /\ IF IsNone(latest_id') \/ Val(latest_id') = 0
         THEN /\ id = 1
              /\ msgs' = Append(msgs, Msg("no_latest_id"))
              /\ pc' = "done"
              /\ session' = "closed"
              /\ UNCHANGED <<attempt, novel_id>>
         ELSE /\ id \in RandomIds(Val(latest_id'))
              /\ RandomAttempt(id)

(* youshu_random_command, main.py 718-736: the detail page request of
   _get_and_format_novel_details returned *)
RandomDetailRespond(outcome, page, id) ==
    /\ pc = "detail" /\ cmd = "random"
    /\ UNCHANGED <<api, cmd, args, book_name, item_index, page_to_fetch,
                   search_results, max_pages, reviews, reqs, search_info, fetched,
                   latest_id, adapter, result, user_states, resolved, cvars>>
    /\ LET exc == DetailException(outcome, page) IN
       /\ failed' = IF exc = "none" THEN NoFailure ELSE <<"detail", exc>>
       /\ IF exc = "none"
            THEN /\ id = 1
                 /\ UNCHANGED <<attempt, novel_id>>
                 /\ IF page.image
                      THEN pc' = "image" /\ UNCHANGED <<msgs, session>>
                      ELSE /\ msgs' = Append(msgs, [Msg("detail") EXCEPT !.item = novel_id])
                           /\ pc' = "done"
                           /\ session' = "closed"
          ELSE IF Retried(exc)
            THEN /\ id \in RandomIds(Val(latest_id))
                 /\ RandomAttempt(id)
          ELSE /\ id = 1
               /\ msgs' = Append(msgs, Msg(IF exc = "ClientResponseError"
                                             THEN "random_http_error"
                                             ELSE "random_unknown_error"))
               /\ pc' = "done"
               /\ session' = "closed"
               /\ UNCHANGED <<attempt, novel_id>>

(* youshu_random_command with main.py 598-612: the cover download returned;
   an exception other than ClientError / TimeoutError is re-raised (618-620)
   and caught at 733-736 *)
RandomImageRespond(outcome) ==
    /\ pc = "image" /\ cmd = "random"
    /\ failed' = IF outcome = "ok" THEN NoFailure ELSE <<"image", outcome>>
    /\ UNCHANGED <<api, cmd, args, book_name, item_index, page_to_fetch,
                   search_results, max_pages, reviews, reqs, search_info, fetched,
                   latest_id, attempt, novel_id, adapter, result, user_states, resolved, cvars>>
    /\ msgs' = Append(msgs,
                  IF outcome = "ok"
                    THEN [Msg("detail") EXCEPT !.item = novel_id, !.count = 1]
                  ELSE IF outcome \in {"client_error", "timeout"}
                    THEN [Msg("detail_cover_failed") EXCEPT !.item = novel_id]
                  ELSE Msg("random_unknown_error"))
    /\ pc' = "done"
    /\ session' = "closed"

FinishRewritesApi ==
    /\ pc = "done"
    /\ cmd' = "none" /\ pc' = "idle" /\ args' = <<>> /\ book_name' = <<>>
    /\ item_index' = None /\ page_to_fetch' = 0 /\ search_results' = <<>>
    /\ max_pages' = 0 /\ novel_id' = 0 /\ reviews' = 0 /\ session' = "none"
    /\ msgs' = <<>> /\ reqs' = <<>> /\ search_info' = NoResult /\ fetched' = 0
    /\ latest_id' = None /\ attempt' = 0 /\ failed' = NoFailure
    /\ api' = 3 - api
    /\ UNCHANGED <<adapter, result, user_states, resolved, cvars>>

(* The handler returned; the plugin waits for the next command. *)
Finish ==
    /\ pc = "done"
    /\ cmd' = "none" /\ pc' = "idle" /\ args' = <<>> /\ book_name' = <<>>
    /\ item_index' = None /\ page_to_fetch' = 0 /\ search_results' = <<>>
    /\ max_pages' = 0 /\ novel_id' = 0 /\ reviews' = 0 /\ session' = "none"
    /\ msgs' = <<>> /\ reqs' = <<>> /\ search_info' = NoResult /\ fetched' = 0
    /\ latest_id' = None /\ attempt' = 0 /\ failed' = NoFailure
    /\ UNCHANGED <<api, adapter, result, user_states, resolved, cvars>>

\* a call of the state manager: its arguments and the value it returned
Call(op, user_id, number, expected, val) ==
    [op |-> op, user_id |-> user_id, number |-> number, expected |-> expected,
     val |-> val]

NoCall == Call("none", "", 0, "", None)

\* The state manager is not in use.
NoStateManager == user_states = <<>> /\ resolved = NoCall

\* No command uses the state manager, and no second command runs.
NoCommand == [pc |-> "none", user_id |-> "", search_type |-> "", page |-> 0,
              outcome |-> "none"]
Alone == pending = NoCommand /\ parked = <<>>

Init ==
    /\ api \in {1, 2}
    /\ InitHandler
    /\ adapter = "none" /\ result = "none"
    /\ NoStateManager
    /\ Alone

Next ==
    \/ \E a \in ArgLists : HsInvoke(a)
    \/ \E up \in JsonUpstream(page_to_fetch) : HsSearchRespond(up)
    \/ \E up \in JsonUpstream(page_to_fetch) : HsRefetchRespond(up)
    \/ \E ok \in BOOLEAN : HsDetailRespond(ok)
    \/ \E ok \in BOOLEAN, n \in 0..MaxReviews : HsCommentsRespond(ok, n)
    \/ \E a \in ArgLists : YsInvoke(a)
    \/ \E up \in YsUpstream(api, page_to_fetch) : YsSearchRespond(up)
    \/ \E o \in DetailOutcomes, pg \in DetailPages : YsDetailRespond(o, pg)
    \/ \E o \in ImageOutcomes : YsImageRespond(o)
    \/ RandomInvoke
    \/ \E r \in LatestReplies, id \in 0..MaxLatest : RandomLatestRespond(r, id)
    \/ \E o \in DetailOutcomes, pg \in DetailPages, id \in 0..MaxLatest :
         RandomDetailRespond(o, pg, id)
    \/ \E o \in ImageOutcomes : RandomImageRespond(o)
    \/ Finish

Spec == Init /\ [][Next]_vars

(* The random-novel command alone.  The event loop resumes the suspended
   handler when its request completes or its timeout (10 s on every request of
   this command) expires: some step is always taken. *)
NextRandom ==
    \/ RandomInvoke
    \/ \E r \in LatestReplies, id \in 0..MaxLatest : RandomLatestRespond(r, id)
    \/ \E o \in DetailOutcomes, pg \in DetailPages, id \in 0..MaxLatest :
         RandomDetailRespond(o, pg, id)
    \/ \E o \in ImageOutcomes : RandomImageRespond(o)
    \/ Finish

SpecRandom == Init /\ [][NextRandom]_vars /\ WF_vars(NextRandom)

----------------------------------------------------------------------------
(* Vocabulary of the properties, written from the specification's formulas
   (not from the handlers' operators). *)

PageOf(n, P) == ((n - 1) \div P) + 1
OffsetOf(n, P) == (n - 1) % P

\* page size actually in force: 20 in /hs and in /ys with the HTML backend,
\* 15 in /ys with the JSON backend
PageSizeInForce == IF cmd = "ys" /\ api = 1 THEN 15 ELSE 20

ItemGiven == cmd \in {"hs", "ys"} /\ ~IsNone(item_index)
ItemN == Val(item_index)
LastMsgKind == IF msgs = <<>> THEN "none" ELSE msgs[Len(msgs)].kind
NoDetailRequest == novel_id = 0 /\ \A k \in DOMAIN reqs : reqs[k].kind = "search"

\* the handler indexed the result list with the item number
Indexed ==
    /\ ItemGiven
    /\ \/ novel_id # 0
       \/ pc = "done" /\ LastMsgKind \in {"item_not_exist", "no_book_id"}

\* what was indexed: page P-sized, at the offset of the item number
IndexedWith(P) ==
    /\ page_to_fetch = PageOf(ItemN, P)
    /\ fetched >= 1 /\ reqs[fetched] = SearchReq(book_name, PageOf(ItemN, P))
    /\ search_results = search_info.books
    /\ IF LastMsgKind = "item_not_exist" /\ novel_id = 0
         THEN Len(search_results) <= OffsetOf(ItemN, P)
         ELSE /\ OffsetOf(ItemN, P) + 1 \in DOMAIN search_results
              /\ search_results[OffsetOf(ItemN, P) + 1].id = novel_id

(* C1 (as claimed): for every item number N >= 1 given to /hs or /ys, the page
   whose list is indexed is ((N-1) div 20)+1 and the position is (N-1) mod 20,
   whichever backend is configured. *)
C1_PageSize20 == Indexed => IndexedWith(20)

(* C1 (amended): the page indexed is ((N-1) div P)+1 and the position is
   (N-1) mod P, where P is 20 in /hs and in /ys with the HTML backend and 15 in
   /ys with the JSON backend (base_url https://www.ypshuo.com/). *)
C1_PageSizeInForce == Indexed => IndexedWith(PageSizeInForce)

C1_Witness ==
    /\ cmd = "ys" /\ api = 1 /\ item_index = Some(16)
    /\ pc = "detail" /\ page_to_fetch = 2 /\ novel_id = search_results[1].id

(* C2: the numbers printed in a list view resolve back to the page and the
   position they were printed for: the number (p-1)*P+i+1 of the i-th book
   (0 <= i < P) of page p resolves to page p and position i, with the P of
   the command that printed the list. *)
C2_LeftInverse ==
    \A k \in DOMAIN msgs :
      msgs[k].kind = "list" =>
        \A i \in 0..(msgs[k].count - 1) :
          i < ResultsPerPage(cmd, api) =>
            /\ CorrectPage(msgs[k].first + i, ResultsPerPage(cmd, api)) = msgs[k].page
            /\ IndexOnPage(msgs[k].first + i, ResultsPerPage(cmd, api)) = i

C2_Witness ==
    /\ cmd = "ys" /\ api = 1 /\ pc = "done"
    /\ \E k \in DOMAIN msgs :
         msgs[k].kind = "list" /\ msgs[k].page = 2 /\ msgs[k].first = 16
           /\ msgs[k].count >= 2

(* C3: when the item number lies on another page than the one loaded, a search
   for that page with the same keyword is issued and returns before the list is
   indexed, and the detail request is for the book at offset (N-1) mod P of
   the list that search returned, a book of that page and not of the page
   loaded before.  In /ys the first search is already for the item's page. *)
C3_RefetchBeforeIndex ==
    (ItemGiven /\ novel_id # 0) =>
      /\ fetched = (IF cmd = "hs" /\ PageOf(ItemN, PageSizeInForce) # 1 THEN 2 ELSE 1)
      /\ Len(reqs) > fetched
      /\ \A k \in 1..fetched : reqs[k].kind = "search" /\ reqs[k].keyword = book_name
      /\ cmd = "hs" => reqs[1].page = 1
      /\ reqs[fetched].page = PageOf(ItemN, PageSizeInForce)
      /\ OffsetOf(ItemN, PageSizeInForce) + 1 \in DOMAIN search_info.books
      /\ reqs[fetched + 1] =
           DetailReq(search_info.books[OffsetOf(ItemN, PageSizeInForce) + 1].id)
      /\ PageOfId(reqs[fetched + 1].id) = PageOf(ItemN, PageSizeInForce)

C3_Witness ==
    /\ cmd = "hs" /\ item_index = Some(25) /\ pc = "detail" /\ fetched = 2
    /\ reqs[2].page = 2 /\ novel_id = BookId(2, 5)

\* the page that holds the item number was fetched and is too short for it
HeldPageShort ==
    /\ ItemGiven /\ fetched >= 1
    /\ reqs[fetched].page = PageOf(ItemN, PageSizeInForce)
    /\ Len(search_info.books) < OffsetOf(ItemN, PageSizeInForce) + 1

(* C4 (as claimed): if the page that holds item N has fewer than
   ((N-1) mod P)+1 books, the command reports that the item does not exist and
   issues no detail request. *)
C4_ItemNotExist ==
    HeldPageShort => pc = "done" /\ LastMsgKind = "item_not_exist" /\ NoDetailRequest

(* C4 (amended): in that case the command ends without a detail request and
   without indexing the list; its last message is not-found when the page came
   back empty or failed, page-does-not-exist when the page number exceeds the
   reported total_pages > 0 (first search only), and item-does-not-exist
   otherwise. *)
C4_ShortPage ==
    HeldPageShort =>
      /\ pc = "done"
      /\ NoDetailRequest
      /\ LastMsgKind =
           IF search_info.none \/ search_info.books = <<>>
             THEN (IF fetched = 2 THEN "not_found_on_page" ELSE "not_found")
           ELSE IF fetched = 1 /\ search_info.total > 0
                   /\ reqs[1].page > search_info.total
             THEN "page_not_exist"
           ELSE "item_not_exist"

C4_Witness ==
    /\ cmd = "ys" /\ item_index = Some(3) /\ Len(search_results) = 2
    /\ pc = "done" /\ LastMsgKind = "item_not_exist" /\ reqs = <<SearchReq(book_name, 1)>>

(* C5: an item number N <= 0 typed by the user (a trailing 0 after the title)
   is rejected as invalid with a message, before any search request. *)
C5_ZeroRejected ==
    (cmd \in {"hs", "ys"} /\ Len(args) > 1 /\ args[Len(args)] = Num(0)) =>
      /\ reqs = <<>>
      /\ pc = "done"
      /\ LastMsgKind = "index_from_1"

\* the page the command needs: the explicit page, or the page of the item number
NeededPage == IF IsNone(item_index) THEN reqs[1].page ELSE PageOf(ItemN, PageSizeInForce)

(* C6: whenever the page a command needs exceeds the total_pages (> 0) a fetch
   of the same command reported, the user gets a page-does-not-exist rejection
   and no network request follows that fetch. *)
C6_PageBound ==
    (cmd \in {"hs", "ys"} /\ fetched >= 1 /\ ~search_info.none
       /\ search_info.total > 0 /\ NeededPage > search_info.total) =>
      /\ pc = "done"
      /\ LastMsgKind = "page_not_exist"
      /\ Len(reqs) = fetched

(* C7: when a search returns no books the command answers not-found and stops:
   no list, no page-bound rejection, no item resolution, no further request. *)
C7_EmptyStops ==
    (fetched >= 1 /\ (search_info.none \/ search_info.books = <<>>)) =>
      /\ pc = "done"
      /\ LastMsgKind \in {"not_found", "not_found_on_page"}
      /\ \A k \in DOMAIN msgs :
           msgs[k].kind \in {"jumping", "not_found", "not_found_on_page"}
      /\ Len(reqs) = fetched
      /\ NoDetailRequest

C7_Witness ==
    /\ cmd = "hs" /\ fetched = 2 /\ ~search_info.none /\ search_info.books = <<>>
    /\ search_info.total = 2 /\ LastMsgKind = "not_found_on_page"

----------------------------------------------------------------------------
(* Failures and exceptions in the handlers *)

InSearchCommand == cmd \in {"hs", "ys"}
RequestFailed == InSearchCommand /\ failed # NoFailure

FailureMessages ==
    {"not_found", "not_found_on_page", "detail_failed", "detail_cover_failed",
     "unknown_error"}

\* the request that failed is the last one issued, and was issued once
FailedRequestLast ==
    /\ reqs # <<>>
    /\ reqs[Len(reqs)].kind = failed[1]
    /\ \A k \in 1..(Len(reqs) - 1) : reqs[k] # reqs[Len(reqs)]

(* C16 (as claimed): in /hs and /ys a timeout or transport error at any
   network call (search, detail page, comments, cover image) ends in a
   user-visible failure message, and the failed request is never repeated. *)
C16_FailureMessage ==
    RequestFailed =>
      /\ pc = "done"
      /\ LastMsgKind \in FailureMessages
      /\ FailedRequestLast

(* C16 (amended): in /hs and /ys a timeout or transport error of a search, of
   a detail page request or of the cover download ends the command with a
   user-visible message that reports it (not-found for a search, a failure
   message for a detail page, the details headed by a cover-failed notice or a
   failure message for the cover); a failed comments request of /hs is only
   logged and the details are shown without reviews.  The failed request is
   never repeated. *)
C16_FailureEnds ==
    RequestFailed =>
      /\ pc = "done"
      /\ FailedRequestLast
      /\ LastMsgKind =
           IF failed[1] = "search"
             THEN (IF fetched = 2 THEN "not_found_on_page" ELSE "not_found")
           ELSE IF failed[1] = "detail"
             THEN (IF cmd = "hs" THEN "detail_failed" ELSE "unknown_error")
           ELSE IF failed[1] = "image"
             THEN (IF failed[2] \in {"client_error", "timeout"}
                     THEN "detail_cover_failed" ELSE "unknown_error")
           ELSE "detail"
      /\ failed[1] = "comments" => msgs[Len(msgs)].count = 0

C16_Witness ==
    /\ cmd = "ys" /\ pc = "done" /\ failed = <<"detail", "timeout">>
    /\ LastMsgKind = "unknown_error" /\ Len(reqs) = 2

PcValues ==
    {"idle", "search1", "search2", "detail", "comments", "image", "latest", "done"}

\* an exception no except clause names: caught by a bare `except Exception`
\* of a command handler
Unclassified == failed[1] \in {"detail", "image"} /\ failed[2] \in {"error", "Exception"}

GenericFailureMessages == {"detail_failed", "unknown_error", "random_unknown_error"}

\* the steps a running handler has left, at most
Rank ==
    IF pc \in {"idle", "done"} THEN 0
    ELSE IF cmd = "random"
      THEN 2 * (max_retries - attempt)
             + (IF pc = "latest" THEN 3 ELSE IF pc = "detail" THEN 2 ELSE 1)
      ELSE 5 - Len(reqs)

(* C17: no exception escapes the /hs, /ys and random-novel handlers: whatever
   the upstreams answer, an invocation ends after a bounded number of steps
   having emitted at least one user-visible message, and an unclassified
   exception is reported as a generic failure message. *)
C17_NoEscape ==
    /\ [](pc \in PcValues /\ Rank >= 0)
    /\ [](pc = "done" => Len(msgs) >= 1 /\ session # "open")
    /\ []((pc = "done" /\ Unclassified) => LastMsgKind \in GenericFailureMessages)
    /\ [][(pc \notin {"idle", "done"}) => Rank' < Rank]_vars

C17_Witness ==
    /\ cmd = "ys" /\ pc = "done" /\ failed = <<"image", "error">>
    /\ msgs = <<Msg("unknown_error")>> /\ session = "closed"

----------------------------------------------------------------------------
(* Paging by the word "next" *)

(* The handlers keep nothing between two commands (Finish), so at every
   command the user's current_page and max_pages are those of a user who has
   not searched, 1 and 1: current_page equals max_pages. *)
NextCommand == InSearchCommand /\ args = <<Word("next")>>

(* C19: the command `<search-command> next`, issued when the user's
   current_page equals max_pages, issues no network request and ends with a
   last-page rejection. *)
C19_NextAtLastPage ==
    NextCommand => /\ reqs = <<>>
                   /\ pc = "done" => LastMsgKind = "last_page"

----------------------------------------------------------------------------
(* Properties of the random-novel command *)

RandomDone == cmd = "random" /\ pc = "done"
ShowsBook == LastMsgKind \in {"detail", "detail_cover_failed"}

\* the failures the claim calls expected: HTTP 404, unparsable page, timeout
ExpectedFailure ==
    failed \in {<<"detail", "ClientResponseError404">>, <<"detail", "ValueError">>,
                <<"detail", "TimeoutError">>}
UnexpectedFailure ==
    \/ failed \in {<<"detail", "ClientResponseError">>, <<"detail", "Exception">>}
    \/ failed = <<"image", "error">>

(* C14 (as claimed): the command ends with the first successful book, or with
   the final not-found message after the 10th failed attempt. *)
C14_TwoEndings ==
    (RandomDone /\ attempt >= 1) =>
      \/ ShowsBook
      \/ LastMsgKind = "random_not_found" /\ attempt = 10

C14_EndsAsAllowed ==
    RandomDone =>
      /\ Len(msgs) = 1
      /\ \/ ShowsBook /\ attempt \in 1..10 /\ failed[1] \in {"none", "image"}
         \/ LastMsgKind = "random_not_found" /\ attempt = 10 /\ ExpectedFailure
         \/ /\ LastMsgKind \in {"random_http_error", "random_unknown_error"}
            /\ attempt \in 1..10 /\ UnexpectedFailure
         \/ LastMsgKind = "no_latest_id" /\ attempt = 0

(* C14 (amended): the random-novel command makes at most 10 detail fetches; a
   fetch that fails in an expected way (HTTP 404, unparsable page, timeout) is
   followed by a new fetch while fewer than 10 were made; and the command always
   terminates: with the first successful book, with the final not-found message
   after the 10th expected failure, with an error message right after a fetch
   that fails in another way (other HTTP status, other exception), or with a
   failure message before any fetch when no latest id was obtained. *)
C14_BoundedRetry ==
    /\ [](cmd = "random" => attempt \in 0..10)
    /\ [][(cmd = "random" /\ pc = "detail" /\ ExpectedFailure' /\ attempt < 10
            /\ <<attempt, pc, failed, novel_id>>' # <<attempt, pc, failed, novel_id>>)
           => (pc' = "detail" /\ attempt' = attempt + 1 /\ msgs' = msgs)]_vars
    /\ []C14_EndsAsAllowed
    /\ (cmd = "random") ~> (pc = "done")

C14_Witness ==
    /\ RandomDone /\ attempt = 10 /\ LastMsgKind = "random_not_found"
    /\ failed = <<"detail", "TimeoutError">>

(* C29: in the random-novel command only HTTP 404, an unparsable page
   (ValueError) and a timeout lead to a further attempt; any other HTTP status
   error or any other exception ends the command at once with an error message
   and no further attempt; and the final not-found message is emitted only
   when all 10 attempts failed in a retryable way. *)
C29_RetryOnlyExpected ==
    /\ [][(cmd = "random" /\ attempt >= 1 /\ attempt' = attempt + 1)
            => ExpectedFailure']_vars
    /\ []((cmd = "random" /\ UnexpectedFailure) =>
            (pc = "done" /\ LastMsgKind \in {"random_http_error", "random_unknown_error"}))
    /\ []((RandomDone /\ LastMsgKind = "random_not_found") =>
            (attempt = max_retries /\ ExpectedFailure))

\* the third attempt met an HTTP status other than 404 and ended the command
C29_Witness ==
    /\ RandomDone /\ attempt = 3 /\ failed = <<"detail", "ClientResponseError">>
    /\ msgs = <<Msg("random_http_error")>>

(* C15: every identifier the random-novel command tries lies in
   [1, latest_id], latest_id being the value obtained once at the start of the
   command; if no latest id was obtained the command reports failure and makes
   no detail fetch. *)
C15_IdsInRange ==
    /\ [](cmd = "random" =>
           /\ attempt >= 1 =>
                /\ ~IsNone(latest_id)
                /\ 1 <= novel_id /\ novel_id <= Val(latest_id)
           /\ (pc # "latest" /\ (IsNone(latest_id) \/ Val(latest_id) = 0)) =>
                /\ pc = "done" /\ LastMsgKind = "no_latest_id"
                /\ attempt = 0 /\ novel_id = 0)
    /\ [][(cmd = "random" /\ pc # "latest" /\ cmd' = "random")
             => latest_id' = latest_id]_vars

C15_Witness ==
    /\ cmd = "random" /\ pc = "detail" /\ attempt = 3
    /\ latest_id = Some(2) /\ novel_id = 2

----------------------------------------------------------------------------
(* Properties of argument parsing *)

\* the three intents as the claim states them: list page, item number, keyword
Intent(a) ==
    LET last == a[Len(a)]
        init == SubSeq(a, 1, Len(a) - 1)
    IN IF Len(a) >= 2 /\ last.k = "dashnum"
         THEN [keyword |-> init, page |-> IF last.n = 0 THEN 1 ELSE last.n,
               item |-> None]
       ELSE IF Len(a) >= 2 /\ last.k = "num"
         THEN [keyword |-> init, page |-> 1, item |-> Some(last.n)]
       ELSE [keyword |-> a, page |-> 1, item |-> None]

\* the handler has parsed its arguments
Parsed == InSearchCommand /\ Len(args) >= 1

\* the first search of /hs asks for the list page that was parsed
ListPageAsked == (cmd = "hs" /\ pc = "search1") => reqs[1].page = Intent(args).page

(* C27: argument parsing of /hs and /ys yields exactly one of three intents:
   with at least two arguments a last argument -<digits> sets the list page
   (-0 read as page 1) and a last argument of only digits sets the item
   number; otherwise all arguments form the keyword.  So an item number is
   never combined with a list page other than 1, a single argument is always
   the keyword, and the keyword is never empty when a search is issued. *)
C27_ThreeIntents ==
    Parsed =>
      /\ book_name = Intent(args).keyword
      /\ item_index = Intent(args).item
      /\ ListPageAsked
      /\ Len(args) = 1 => (book_name = args /\ IsNone(item_index))
      /\ reqs # <<>> => book_name # <<>>

----------------------------------------------------------------------------
(* Properties of the HTTP sessions of the handlers *)

\* the command opened a session: it sent a request, or it is the random command
SessionOpened == reqs # <<>> \/ cmd = "random"

(* C25: every HTTP session a command handler opened is closed by the time
   the handler finishes, on every exit path (early return after a rejection,
   normal completion, caught exception); no session is open after its command
   ended. *)
C25_SessionsClosed ==
    /\ pc \in {"idle", "done"} => session # "open"
    /\ (pc = "done" /\ SessionOpened) => session = "closed"

\* a command that was rejected after its search has closed its session
C25_Witness ==
    /\ pc = "done" /\ SessionOpened /\ session = "closed"
    /\ LastMsgKind = "page_not_exist"

(* session is the ClientSession a handler created for itself (main.py 217,
   647, 705): "none" before the handler created one, then "open", then
   "closed".  The plugin creates no client at startup (main.py 22-61). *)
OwnClient == session # "none"

(* C24: one outbound HTTP client is shared by all commands and adapters: it
   is created once at startup and closed once at shutdown, and no command
   creates another one. *)
C24_OneSharedClient == ~OwnClient

----------------------------------------------------------------------------
(* Properties of the requests of one invocation *)

Requests(kind) == {k \in DOMAIN reqs : reqs[k].kind = kind}

\* the position on the held page the command selects: that of the item
\* number, or the only book of a single-book result
SelectedPos == IF ItemGiven THEN OffsetOf(ItemN, PageSizeInForce) + 1 ELSE 1

\* a search of this invocation has returned a non-empty list that holds the
\* selected position, and the book there is the one with this id
SelectedFrom(id) ==
    /\ fetched >= 1
    /\ search_results # <<>>
    /\ SelectedPos \in DOMAIN search_results
    /\ search_results[SelectedPos].id = id

(* C26: per invocation /ys issues at most one search request and /hs at most
   two (the second only when an item number lies on a page other than page 1);
   each issues at most one detail-page request, sent only after a search of
   the same invocation returned a non-empty list that contains the selected
   position. *)
C26_RequestBounds ==
    InSearchCommand =>
      /\ cmd = "ys" => Cardinality(Requests("search")) <= 1
      /\ cmd = "hs" => /\ Cardinality(Requests("search")) <= 2
                       /\ Cardinality(Requests("search")) = 2 =>
                            (ItemGiven /\ PageOf(ItemN, HsResultsPerPage) # 1)
      /\ Cardinality(Requests("detail")) <= 1
      /\ \A k \in Requests("detail") :
            /\ \E j \in Requests("search") : j < k
            /\ SelectedFrom(reqs[k].id)

\* /hs sent its detail request after the second of two searches
C26_Witness ==
    /\ cmd = "hs" /\ Cardinality(Requests("search")) = 2
    /\ Cardinality(Requests("detail")) = 1 /\ fetched = 2

----------------------------------------------------------------------------
(* Properties of the direct detail view of /ys *)

\* /ys without item number got a non-empty answer to its search
YsListAnswered ==
    /\ cmd = "ys" /\ IsNone(item_index) /\ fetched = 1 /\ ~NotFound(search_info)

SingleBook == Len(search_results) = 1 /\ max_pages = 1

\* the handler took the detail branch: it asked for the detail page of the
\* only book, or found that this book carries no id
DetailDirectly ==
    \/ Requests("detail") # {} /\ novel_id = search_results[1].id
    \/ pc = "done" /\ LastMsgKind = "no_book_id"

ListShown == pc = "done" /\ LastMsgKind = "list" /\ Requests("detail") = {}

\* the page asked for lies beyond the page count the search reported
BeyondLastPage == page_to_fetch > max_pages /\ max_pages > 0

(* C28 as stated: in /ys with no item number the detail view is shown
   directly exactly when the search returned a single book and
   total_pages = 1; in every other non-empty case a list is shown and no
   detail request is made. *)
C28_DirectIffSingle ==
    YsListAnswered => IF SingleBook THEN DetailDirectly ELSE ListShown

(* C28, amended: the same, for a page that is not beyond the reported page
   count; beyond it (/ys <title> -<page> with page > total_pages > 0) the
   command answers page-does-not-exist and shows neither a list nor a detail
   view, also when a single book with total_pages = 1 came back. *)
C28_DirectIffSingleInRange ==
    YsListAnswered =>
      IF BeyondLastPage
        THEN pc = "done" /\ LastMsgKind = "page_not_exist" /\ Requests("detail") = {}
      ELSE IF SingleBook THEN DetailDirectly
      ELSE ListShown

\* the search page redirected to one book's page and its detail was requested
C28_Witness ==
    /\ YsListAnswered /\ api = 2 /\ SingleBook /\ ~BeyondLastPage
    /\ Requests("detail") # {} /\ novel_id = search_results[1].id

----------------------------------------------------------------------------
(* Part 2: the source adapters, src/sources.                               *)

AMaxBooks == 2      \* longest raw result list an adapter is handed

Absent == "<absent>"    \* a key the reply lacks, a pattern that did not match
PyNone == "<None>"      \* Python's None as a field value

\* How a request ends: a reply, or an exception of session.get /
\* raise_for_status (timeout, connection error, non-2xx status).
Transports == {"ok", "timeout", "conn_error", "http_error"}

\* A call either returns a value or raises.
Return(v) == [raised |-> FALSE, val |-> v]
Raise == [raised |-> TRUE, val |-> PyNone]

\* `except Exception as e: ...; return v` around a try body
CatchNothing(c, v) == c

Catch(c, v) == IF c.raised THEN Return(v) ELSE c

\* The placeholder texts of the code (Chinese in the source, transliterated)
Wu == "[wu]"                        \* U+65E0: "none"
UnknownTitle == "[weizhi shuji]"    \* "unknown book"
UnknownAuthor == "[weizhi zuozhe]"  \* "unknown author"
NoScoreYet == "[zanwu]"             \* "none yet"
Unknown == "[weizhi]"               \* "unknown"

\* Raw result records as the upstreams deliver them (JSON objects, or the
\* fields matched in one HTML result block).
Raw(id, name, author, score, scorer) ==
    [id |-> id, name |-> name, author |-> author, score |-> score, scorer |-> scorer]

RawBooks ==
    {Raw("7", "T", "A", "8.5", "12"),
     Raw("8", "U", Absent, Absent, Absent),
     Raw("9", "V", Absent, "7.0", Absent),
     Raw(Absent, Absent, "A", "8.5", "12")}

RECURSIVE SeqsUpTo(_, _)
SeqsUpTo(S, n) ==
    IF n = 0 THEN {<<>>}
    ELSE LET shorter == SeqsUpTo(S, n - 1)
         IN shorter \cup {Append(q, x) : q \in {r \in shorter : Len(r) = n - 1}, x \in S}

RawLists == SeqsUpTo(RawBooks, AMaxBooks)

\* What a search request meets upstream.
\*   kind "json": a JSON reply; success = the reply carries the success code
\*                and the data object; data/total as in the reply
\*   kind "garbage": a body that does not decode as JSON
\*   kind "list" / "redirect" / "neither": youshu.me HTML pages
AUp(transport, kind, success, data, total) ==
    [transport |-> transport, kind |-> kind, success |-> success,
     data |-> data, total |-> total]

AFailures == {AUp(t, "none", FALSE, <<>>, None) : t \in Transports \ {"ok"}}

AJsonReplies ==
    {AUp("ok", "garbage", FALSE, <<>>, None), AUp("ok", "json", FALSE, <<>>, None)}
      \cup {AUp("ok", "json", TRUE, d, tp) :
              d \in RawLists, tp \in {None} \cup {Some(k) : k \in 0..MaxPages}}

AHtmlReplies ==
    {AUp("ok", "neither", FALSE, <<>>, None),
     AUp("ok", "redirect", TRUE, <<Raw("7", "T", Absent, Absent, Absent)>>, None)}
      \cup {AUp("ok", "list", TRUE, d, T) :
              d \in RawLists,
              T \in {None} \cup {Some(k) : k \in {0, 1, YsHtmlResultsPerPage,
                                                  YsHtmlResultsPerPage + 1}}}

(* YpshuoStrategy.search, youshu_source.py 45-62 *)
YpshuoSearchTry(up) ==
    IF up.transport # "ok" \/ up.kind = "garbage" THEN Raise
    ELSE IF up.success
      THEN Return(SearchInfo(up.data, IF IsNone(up.total) THEN 1 ELSE Val(up.total)))
    ELSE Return(NoResult)

YpshuoSearch(up) == Catch(YpshuoSearchTry(up), NoResult)

\* `if 'id' in book_info and 'novel_name' in book_info`, youshu_source.py 227
\* (main.py 349): the result block is kept
KeepBlockNeedsAuthor(b) == b.id # Absent /\ b.name # Absent /\ b.author # Absent

KeepBlock(b) == b.id # Absent /\ b.name # Absent

(* YoushuMeStrategy.search, youshu_source.py 180-253 *)
YoushuMeSearchTry(up) ==
    IF up.transport # "ok" THEN Raise
    ELSE IF up.kind = "list"
      THEN Return(SearchInfo(
             SelectSeq(up.data, KeepBlock),
             TotalPages(IF IsNone(up.total) THEN 0 ELSE Val(up.total),
                        YsHtmlResultsPerPage)))
    ELSE IF up.kind = "redirect"
      THEN Return(SearchInfo(up.data, 1))
    ELSE Return(SearchInfo(<<>>, 0))

YoushuMeSearch(up) == Catch(YoushuMeSearchTry(up), NoResult)

\* Book(...) of a search hit; a field the record lacks gets the default text
Book(id, title, author, score, scorer) ==
    [id |-> id, title |-> title, author |-> author, score |-> score,
     scorer |-> scorer, reviews |-> 0]

AbsentResult == [none |-> TRUE, books |-> <<>>, total_pages |-> 0, current_page |-> 0]
SearchResult(books, total_pages, current_page) ==
    [none |-> FALSE, books |-> books, total_pages |-> total_pages,
     current_page |-> current_page]

Get(v, default) == IF v = Absent THEN default ELSE v

(* YoushuSource.search, youshu_source.py 369-388 *)
YoushuSourceSearch(strategy, up, page) ==
    LET search_result == IF strategy = "ypshuo" THEN YpshuoSearch(up)
                                                ELSE YoushuMeSearch(up)
    IN IF search_result.raised THEN search_result
       ELSE IF search_result.val.none \/ search_result.val.books = <<>>
         THEN Return(AbsentResult)
       ELSE Return(SearchResult(
              [i \in DOMAIN search_result.val.books |->
                 LET raw_book == search_result.val.books[i]
                 IN Book(Get(raw_book.id, ""), Get(raw_book.name, UnknownTitle),
                         Get(raw_book.author, UnknownAuthor), Get(raw_book.score, "N/A"),
                         Get(raw_book.scorer, "0"))],
              search_result.val.total, page))

(* UaaSource.search, uaa_source.py 25-63 *)
UaaSearchTry(up, page) ==
    IF up.transport # "ok" \/ up.kind = "garbage" THEN Raise
    ELSE IF up.success
      THEN Return(SearchResult(
             [i \in DOMAIN up.data |->
                Book(Get(up.data[i].id, ""), Get(up.data[i].name, UnknownTitle),
                     Get(up.data[i].author, UnknownAuthor),
                     Get(up.data[i].score, NoScoreYet), PyNone)],
             IF IsNone(up.total) THEN 1 ELSE Val(up.total), page))
    ELSE Return(AbsentResult)

UaaSearch(up, page) == Catch(UaaSearchTry(up, page), AbsentResult)

(* Detail pages.  Each field is what its pattern captured: Absent when the
   pattern did not match, else the captured text (possibly empty, possibly a
   placeholder the site prints itself). *)
PageVals == {Absent, "", Wu, "x"}

DetailPage(transport, title, author, score, scorer) ==
    [transport |-> transport, title |-> title, author |-> author,
     score |-> score, scorer |-> scorer]

ADetailPages ==
    {DetailPage(t, Absent, Absent, Absent, Absent) : t \in Transports \ {"ok"}}
      \cup {DetailPage("ok", t, a, sc, Absent) :
              t \in PageVals, a \in PageVals, sc \in PageVals}
      \cup {DetailPage("ok", "x", "x", "x", n) : n \in {"", "0", "12"}}

EmptyDict == [empty |-> TRUE, novel_name |-> Absent, author_name |-> Absent,
              score |-> Absent, scorer |-> Absent]
Dict(name, author, score, scorer) ==
    [empty |-> FALSE, novel_name |-> name, author_name |-> author,
     score |-> score, scorer |-> scorer]

\* `m.group(1).strip() if m else '[wu]'`, youshu_source.py 101, 105
StripOr(v) == IF v = Absent THEN Wu ELSE v

\* clean_html_content, youshu_source.py 262-268; clean_text, uaa_source.py 76-77
CleanOr(v) == IF v = Absent \/ v = "" THEN Wu ELSE v

(* YpshuoStrategy.get_book_details, youshu_source.py 64-170 *)
YpshuoDetailsTry(page) ==
    IF page.transport # "ok" THEN Raise
    ELSE Return(Dict(StripOr(page.title), StripOr(page.author),
                     StripOr(page.score), StripOr(page.scorer)))

YpshuoDetails(page) == Catch(YpshuoDetailsTry(page), EmptyDict)

(* YoushuMeStrategy.get_book_details, youshu_source.py 255-349 *)
YoushuMeDetailsTry(page) ==
    IF page.transport # "ok" THEN Raise
    ELSE Return(Dict(CleanOr(page.title), CleanOr(page.author),
                     CleanOr(page.score), CleanOr(page.scorer)))

YoushuMeDetails(page) == Catch(YoushuMeDetailsTry(page), EmptyDict)

AbsentBook == [none |-> TRUE, book |-> Book(PyNone, PyNone, PyNone, PyNone, PyNone)]
SomeBook(b) == [none |-> FALSE, book |-> b]

\* clean_val, youshu_source.py 397-400
clean_val(val) ==
    IF val \in {Wu, Unknown, "N/A", "0", ""} THEN PyNone ELSE val

(* YoushuSource.get_book_details, youshu_source.py 390-419 *)
YoushuSourceDetails(strategy, page, book_id) ==
    LET d == IF strategy = "ypshuo" THEN YpshuoDetails(page) ELSE YoushuMeDetails(page)
    IN IF d.raised THEN d
       ELSE LET details == d.val
            IN IF details.empty \/ details.novel_name = Wu
                 THEN Return(AbsentBook)
                 ELSE Return(SomeBook(Book(book_id, details.novel_name,
                                           clean_val(details.author_name),
                                           clean_val(details.score),
                                           clean_val(details.scorer))))

(* UaaSource.get_book_details, uaa_source.py 69-133: the detail page request
   and the parse of the page into novel_info *)
UaaDetailPageTry(page) ==
    IF page.transport # "ok" THEN Raise
    ELSE Return(Dict(CleanOr(page.title), CleanOr(page.author),
                     CleanOr(page.score), Absent))

\* `novel_info[k] if novel_info[k] != '[wu]' else None`, uaa_source.py 168-171
NoneIfWu(v) == IF v = Wu THEN PyNone ELSE v

UaaBookOfCommentsFatal(novel_info, book_id, comments_ok, n) ==
    IF ~comments_ok THEN Raise
    ELSE Return(SomeBook([Book(book_id, NoneIfWu(novel_info.novel_name),
                               NoneIfWu(novel_info.author_name),
                               NoneIfWu(novel_info.score), PyNone)
                            EXCEPT !.reviews = n]))

(* UaaSource.get_book_details, uaa_source.py 135-188: the comments request
   (its failure is swallowed, lines 160-161), then the Book *)
UaaBookOf(novel_info, book_id, comments_ok, n) ==
    Return(SomeBook([Book(book_id, NoneIfWu(novel_info.novel_name),
                          NoneIfWu(novel_info.author_name),
                          NoneIfWu(novel_info.score), PyNone)
                       EXCEPT !.reviews = IF comments_ok THEN n ELSE 0]))

----------------------------------------------------------------------------
(* The adapters as a state machine: a caller constructs the adapters, calls
   search or get_book_details, and the call runs from one network request to
   the next.  adapter.failed records that a request of the call in progress
   met a transport failure; adapter.up / adapter.html keep what the upstream
   answered. *)

YpshuoUrl == "https://www.ypshuo.com/"
BaseUrls == {YpshuoUrl, "https://youshu.me/"}

StrategyForNoSlash(base_url) ==
    IF base_url = "https://www.ypshuo.com" THEN "ypshuo" ELSE "youshume"

\* YoushuSource.__init__, youshu_source.py 355-367
StrategyFor(base_url) == IF base_url = YpshuoUrl THEN "ypshuo" ELSE "youshume"

NoUp == AUp("none", "none", FALSE, <<>>, None)
NoPage == DetailPage("none", Absent, Absent, Absent, Absent)
BookIds == {"7", "8"}

AdapterIdle(base_url) ==
    [base_url |-> base_url, strategy |-> StrategyFor(base_url), src |-> "none",
     op |-> "none", pc |-> "idle", page |-> 0, book_id |-> "", up |-> NoUp,
     html |-> NoPage, info |-> EmptyDict, failed |-> FALSE]

InitAdapter ==
    /\ api = 1
    /\ InitHandler
    /\ \E u \in BaseUrls : adapter = AdapterIdle(u)
    /\ result = Return(PyNone)
    /\ NoStateManager
    /\ Alone

\* a caller invokes source.search(session, keyword, page)
ACallSearch(src, page) ==
    /\ adapter.pc = "idle"
    /\ adapter' = [adapter EXCEPT !.src = src, !.op = "search", !.pc = "request",
                                  !.page = page]
    /\ UNCHANGED <<result, hvars, svars, cvars>>

\* a caller invokes source.get_book_details(session, book_id)
ACallDetails(src, book_id) ==
    /\ adapter.pc = "idle"
    /\ adapter' = [adapter EXCEPT !.src = src, !.op = "details", !.pc = "request",
                                  !.book_id = book_id]
    /\ UNCHANGED <<result, hvars, svars, cvars>>

\* YoushuSource.search: the strategy's request returned
AYsSearchReturn(up) ==
    /\ adapter.pc = "request" /\ adapter.src = "ys" /\ adapter.op = "search"
    /\ result' = YoushuSourceSearch(adapter.strategy, up, adapter.page)
    /\ adapter' = [adapter EXCEPT !.pc = "done", !.up = up,
                                  !.failed = up.transport # "ok"]
    /\ UNCHANGED <<hvars, svars, cvars>>

\* UaaSource.search: the request returned
AHsSearchReturn(up) ==
    /\ adapter.pc = "request" /\ adapter.src = "hs" /\ adapter.op = "search"
    /\ result' = UaaSearch(up, adapter.page)
    /\ adapter' = [adapter EXCEPT !.pc = "done", !.up = up,
                                  !.failed = up.transport # "ok"]
    /\ UNCHANGED <<hvars, svars, cvars>>

\* YoushuSource.get_book_details: the strategy's request returned
AYsDetailsReturn(page) ==
    /\ adapter.pc = "request" /\ adapter.src = "ys" /\ adapter.op = "details"
    /\ result' = YoushuSourceDetails(adapter.strategy, page, adapter.book_id)
    /\ adapter' = [adapter EXCEPT !.pc = "done", !.html = page,
                                  !.failed = page.transport # "ok"]
    /\ UNCHANGED <<hvars, svars, cvars>>

\* UaaSource.get_book_details: the detail page request returned; an exception
\* is caught at uaa_source.py 186-188
AHsDetailPageReturn(page) ==
    /\ adapter.pc = "request" /\ adapter.src = "hs" /\ adapter.op = "details"
    /\ LET c == UaaDetailPageTry(page) IN
       IF c.raised
         THEN /\ result' = Catch(c, AbsentBook)
              /\ adapter' = [adapter EXCEPT !.pc = "done", !.html = page,
                                            !.failed = TRUE]
         ELSE /\ adapter' = [adapter EXCEPT !.pc = "comments", !.html = page,
                                            !.info = c.val]
              /\ UNCHANGED result
    /\ UNCHANGED <<hvars, svars, cvars>>

\* UaaSource.get_book_details: the comments request returned
AHsCommentsReturn(transport, n) ==
    /\ adapter.pc = "comments"
    /\ result' = Catch(UaaBookOf(adapter.info, adapter.book_id, transport = "ok", n),
                       AbsentBook)
    /\ adapter' = [adapter EXCEPT !.pc = "done", !.failed = transport # "ok"]
    /\ UNCHANGED <<hvars, svars, cvars>>

\* the caller took the result; the adapters are ready for the next call
AReturn ==
    /\ adapter.pc = "done"
    /\ adapter' = AdapterIdle(adapter.base_url)
    /\ result' = Return(PyNone)
    /\ UNCHANGED <<hvars, svars, cvars>>

NextAdapter ==
    \/ \E src \in {"ys", "hs"}, page \in 1..MaxPages : ACallSearch(src, page)
    \/ \E src \in {"ys", "hs"}, id \in BookIds : ACallDetails(src, id)
    \/ \E up \in AFailures \cup
                 (IF adapter.strategy = "ypshuo" THEN AJsonReplies ELSE AHtmlReplies) :
         AYsSearchReturn(up)
    \/ \E up \in AFailures \cup AJsonReplies : AHsSearchReturn(up)
    \/ \E page \in ADetailPages : AYsDetailsReturn(page)
    \/ \E page \in ADetailPages : AHsDetailPageReturn(page)
    \/ \E t \in Transports, n \in 0..MaxReviews : AHsCommentsReturn(t, n)
    \/ AReturn

SpecAdapter == InitAdapter /\ [][NextAdapter]_vars

----------------------------------------------------------------------------
(* Part 3: the session state manager.                                      *)

(* A map from a user identifier to that user's UserSearchState, with the
   three operations get_state, update_state and resolve_by_number.  resolved
   records the last call made and the value it returned. *)

MaxCached == 2      \* longest result page handed to update_state

Users == {"u1", "u2"}
SearchTypes == {"ys", "hs"}

\* the books a result page is made of
StateBooks == {Book("7", "T", "A", "8.5", "12"), Book("8", "U", PyNone, PyNone, PyNone)}

\* (current_page, max_pages) of a completed search
PagePairs == {<<1, MaxPages>>}

\* the lightweight cache form of a book: id, title, author, score, scorer
Project(b) ==
    [id |-> b.id, title |-> b.title, author |-> b.author, score |-> b.score,
     scorer |-> b.scorer]

UserSearchState(keyword, current_page, maxp, search_type, results) ==
    [keyword |-> keyword, current_page |-> current_page, max_pages |-> maxp,
     search_type |-> search_type, results |-> results]

\* empty keyword, page 1, max_pages 1, no search_type, empty results
DefaultState == UserSearchState("", 1, 1, PyNone, <<>>)

\* get_state: the existing state, or a default one created on first use
GetState(states, user_id) ==
    IF user_id \in DOMAIN states THEN states ELSE (user_id :> DefaultState) @@ states

\* update_state: every field of the user's state is overwritten
UpdateState(states, user_id, keyword, current_page, maxp, search_type, books) ==
    [u \in DOMAIN states \cup {user_id} |->
        IF u = user_id
          THEN UserSearchState(keyword, current_page, maxp, search_type,
                               [i \in DOMAIN books |-> Project(books[i])])
          ELSE states[u]]

ResolveIgnoringType(state, number, expected_search_type) ==
    IF number \notin 1..Len(state.results) THEN None ELSE Some(state.results[number])

\* resolve_by_number on the user's state: the cached item, or None for absent
Resolve(state, number, expected_search_type) ==
    IF state.search_type # expected_search_type THEN None
    ELSE IF number \notin 1..Len(state.results) THEN None
    ELSE Some(state.results[number])

get_state(user_id) ==
    /\ user_states' = GetState(user_states, user_id)
    /\ resolved' = Call("get_state", user_id, 0, "", Some(user_states'[user_id]))
    /\ UNCHANGED <<hvars, avars, cvars>>

update_state(user_id, keyword, pp, search_type, books) ==
    /\ user_states' = UpdateState(user_states, user_id, keyword, pp[1], pp[2],
                                  search_type, books)
    /\ resolved' = Call("update_state", user_id, 0, "", None)
    /\ UNCHANGED <<hvars, avars, cvars>>

resolve_by_number(user_id, number, expected_search_type) ==
    /\ user_states' = GetState(user_states, user_id)
    /\ resolved' = Call("resolve_by_number", user_id, number, expected_search_type,
                        Resolve(user_states'[user_id], number, expected_search_type))
    /\ UNCHANGED <<hvars, avars, cvars>>

InitState ==
    /\ api = 1
    /\ InitHandler
    /\ adapter = "none" /\ result = "none"
    /\ NoStateManager
    /\ Alone

NextState ==
    \/ \E u \in Users : get_state(u)
    \/ \E u \in Users, pp \in PagePairs, t \in SearchTypes,
          books \in SeqsUpTo(StateBooks, MaxCached) :
         update_state(u, "Foo", pp, t, books)
    \/ \E u \in Users, n \in 0..(MaxCached + 1), t \in SearchTypes :
         resolve_by_number(u, n, t)

SpecState == InitState /\ [][NextState]_vars

----------------------------------------------------------------------------
(* Part 4: the canonical-catalog lookups, src/sources/qidian_source.py.    *)

(* QidianSource opens a session of its own per call and reads a JSON object
   embedded in a script node of the page.  In this part adapter is the call
   in progress (op, pc, arguments, the page met) and result is its outcome. *)

QMaxRecords == 2    \* longest records list of a search page

\* session.get has no raise_for_status: an HTTP error status delivers a page
QTransports == {"ok", "timeout", "conn_error"}

\* `x.get(key)`: None for a missing key
GetOrNone(v) == IF v = Absent THEN PyNone ELSE v

\* an entry of bookInfo.records: an object with or without its keys, or a
\* value that is no object
QRec(dict, bName, bAuth, bid) ==
    [dict |-> dict, bName |-> bName, bAuth |-> bAuth, bid |-> bid]
QRecs ==
    {QRec(TRUE, "x", "a", "1"), QRec(TRUE, Absent, "a", "1"),
     QRec(TRUE, "x", Absent, "1"), QRec(TRUE, "x", "a", Absent),
     QRec(FALSE, Absent, Absent, Absent)}

(* What the request meets.  script: the script node is missing, holds text
   that is not JSON, or holds JSON.  shape: every enclosing object is there
   ("full"), one of pageContext / pageProps / pageData / bookInfo is missing
   ("missing"), or one of them is null ("null"). *)
QPage(transport, script, shape, records, bookName, desc) ==
    [transport |-> transport, script |-> script, shape |-> shape,
     records |-> records, bookName |-> bookName, desc |-> desc]

QNoPage == QPage("none", "none", "full", <<>>, Absent, Absent)

QFailures == {QPage(t, "none", "full", <<>>, Absent, Absent) : t \in QTransports \ {"ok"}}

QBrokenPages ==
    {QPage("ok", s, "full", <<>>, Absent, Absent) : s \in {"none", "bad_json"}}
      \cup {QPage("ok", "json", sh, <<>>, Absent, Absent) : sh \in {"missing", "null"}}

QSearchPages ==
    QFailures \cup QBrokenPages
      \cup {QPage("ok", "json", "full", rs, Absent, Absent) :
              rs \in SeqsUpTo(QRecs, QMaxRecords)}

QDetailPages ==
    QFailures \cup QBrokenPages
      \cup {QPage("ok", "json", "full", <<>>, n, d) :
              n \in {Absent, "x"}, d \in {Absent, PyNone, "x"}}

\* the value search_book returns: the list, or the metadata around it
QResult(return_metadata, books, current_page) ==
    [meta |-> return_metadata, books |-> books, total |-> Len(books),
     current_page |-> IF return_metadata THEN current_page ELSE 0]

QBook(r) == [name |-> GetOrNone(r.bName), author |-> GetOrNone(r.bAuth),
             bid |-> GetOrNone(r.bid)]

(* QidianSource.search_book, qidian_source.py 21-51: the body of the try *)
QidianSearchTry(page, return_metadata) ==
    IF page.transport # "ok" THEN Raise
    ELSE IF page.script = "none" THEN Return(QResult(return_metadata, <<>>, 1))
    ELSE IF page.script = "bad_json" \/ page.shape = "null" THEN Raise
    ELSE IF page.shape = "missing" THEN Return(QResult(return_metadata, <<>>, 1))
    ELSE IF \E i \in DOMAIN page.records : ~page.records[i].dict THEN Raise
    ELSE Return(QResult(return_metadata,
                        [i \in DOMAIN page.records |-> QBook(page.records[i])], 1))

(* QidianSource.search_book, qidian_source.py 16-56 *)
QidianSearchBook(page, pageNum, return_metadata) ==
    Catch(QidianSearchTry(page, return_metadata),
          QResult(return_metadata, <<>>, pageNum))

QAbsent == [none |-> TRUE, name |-> PyNone, intro |-> PyNone]
QDetails(name, intro) == [none |-> FALSE, name |-> name, intro |-> intro]

(* QidianSource.get_book_details, qidian_source.py 65-104: the body of the
   inner try; `info.get("desc", "").strip()` raises for a null desc *)
QidianParseTry(page) ==
    IF page.script = "bad_json" \/ page.shape # "full" \/ page.desc = PyNone
      THEN Raise
    ELSE Return(QDetails(GetOrNone(page.bookName),
                         IF page.desc = Absent THEN "" ELSE "[indent]x"))

(* QidianSource.get_book_details, qidian_source.py 61-106: the body of the
   outer try; a failure of the parse is logged and `return None` follows *)
QidianDetailsTry(page) ==
    IF page.transport # "ok" THEN Raise
    ELSE IF page.script = "none" THEN Return(QAbsent)
    ELSE Catch(QidianParseTry(page), QAbsent)

QidianGetBookDetailsNoCatch(page) == QidianDetailsTry(page)

(* QidianSource.get_book_details, qidian_source.py 58-108 *)
QidianGetBookDetails(page) == Catch(QidianDetailsTry(page), QAbsent)

QIdle == [op |-> "none", pc |-> "idle", page |-> 0, return_metadata |-> FALSE,
          met |-> QNoPage]

InitQidian ==
    /\ api = 1
    /\ InitHandler
    /\ NoStateManager
    /\ Alone
    /\ adapter = QIdle
    /\ result = Return(PyNone)

\* a caller invokes search_book(keyword, page, return_metadata)
QCallSearch(pageNum, return_metadata) ==
    /\ adapter.pc = "idle"
    /\ adapter' = [adapter EXCEPT !.op = "search_book", !.pc = "request",
                                  !.page = pageNum,
                                  !.return_metadata = return_metadata]
    /\ UNCHANGED <<result, hvars, svars, cvars>>

\* a caller invokes get_book_details(book_url)
QCallDetails ==
    /\ adapter.pc = "idle"
    /\ adapter' = [adapter EXCEPT !.op = "get_book_details", !.pc = "request"]
    /\ UNCHANGED <<result, hvars, svars, cvars>>

\* search_book: the request returned
QSearchReturn(page) ==
    /\ adapter.pc = "request" /\ adapter.op = "search_book"
    /\ result' = QidianSearchBook(page, adapter.page, adapter.return_metadata)
    /\ adapter' = [adapter EXCEPT !.pc = "done", !.met = page]
    /\ UNCHANGED <<hvars, svars, cvars>>

\* get_book_details: the request returned
QDetailsReturn(page) ==
    /\ adapter.pc = "request" /\ adapter.op = "get_book_details"
    /\ result' = QidianGetBookDetails(page)
    /\ adapter' = [adapter EXCEPT !.pc = "done", !.met = page]
    /\ UNCHANGED <<hvars, svars, cvars>>

\* the caller took the result
QReturn ==
    /\ adapter.pc = "done"
    /\ adapter' = QIdle
    /\ result' = Return(PyNone)
    /\ UNCHANGED <<hvars, svars, cvars>>

NextQidian ==
    \/ \E p \in 1..MaxPages, m \in BOOLEAN : QCallSearch(p, m)
    \/ QCallDetails
    \/ \E page \in QSearchPages : QSearchReturn(page)
    \/ \E page \in QDetailPages : QDetailsReturn(page)
    \/ QReturn

SpecQidian == InitQidian /\ [][NextQidian]_vars

----------------------------------------------------------------------------
(* Properties of the session state manager *)

ResolveReturned == resolved.op = "resolve_by_number"

\* the state the last call of resolve_by_number was made on
ResolvedOn == user_states[resolved.user_id]

(* C20: cross-domain isolation.  When the user's state was last written by
   a search of one type (or never written), resolve_by_number with another
   expected type returns absent for every number, whatever the cached result
   list holds. *)
C20_CrossDomainAbsent ==
    (ResolveReturned /\ ResolvedOn.search_type # resolved.expected)
        => resolved.val = None

\* a number inside the range of a ys result page was resolved for hs
C20_Witness ==
    /\ ResolveReturned /\ resolved.expected = "hs"
    /\ ResolvedOn.search_type = "ys" /\ Len(ResolvedOn.results) = MaxCached
    /\ resolved.number = MaxCached /\ resolved.val = None

----------------------------------------------------------------------------
(* Properties of the adapters *)

SearchDone == adapter.pc = "done" /\ adapter.op = "search"
DetailsDone == adapter.pc = "done" /\ adapter.op = "details"

\* the upstream answered the search properly and has no hit
ZeroHits ==
    /\ adapter.up.transport = "ok"
    /\ \/ adapter.up.kind = "json" /\ adapter.up.success /\ adapter.up.data = <<>>
       \/ adapter.up.kind = "list" /\ adapter.up.data = <<>>

\* the upstream call itself failed: transport error or malformed reply
UpstreamFailed ==
    \/ adapter.up.transport # "ok"
    \/ adapter.up.kind = "garbage"
    \/ adapter.up.kind = "json" /\ ~adapter.up.success

(* C8: search distinguishes the two outcomes: zero hits give a SearchResult
   with empty books and total_pages = 0; the absent value is returned only when
   the upstream call itself fails. *)
C8_ZeroHitsDistinct ==
    SearchDone =>
      /\ ~result.raised
      /\ ZeroHits => /\ ~result.val.none
                     /\ result.val.books = <<>>
                     /\ result.val.total_pages = 0
      /\ result.val.none => UpstreamFailed

(* C9 (as claimed): a transport failure of any request of search or
   get_book_details makes the call return the absent value, without raising. *)
C9_FailureGivesAbsent ==
    (adapter.pc = "done" /\ adapter.failed) => ~result.raised /\ result.val.none

\* the only failed request is the comments request of UaaSource.get_book_details
OnlyCommentsFailed ==
    adapter.src = "hs" /\ adapter.op = "details" /\ adapter.html.transport = "ok"

(* C9 (amended): no adapter call raises.  A transport failure of the search
   request or of the detail page request makes the call return the absent
   value; a failure of the comments request of UaaSource.get_book_details
   alone returns the Book of the detail page with no reviews. *)
C9_NoEscape ==
    adapter.pc = "done" =>
      /\ ~result.raised
      /\ adapter.failed =>
           IF OnlyCommentsFailed
             THEN ~result.val.none /\ result.val.book.reviews = 0
             ELSE result.val.none

C9_Witness ==
    /\ adapter.pc = "done" /\ adapter.src = "ys" /\ adapter.op = "details"
    /\ adapter.strategy = "ypshuo" /\ adapter.html.transport = "timeout"
    /\ ~result.raised /\ result.val.none

(* C10: get_book_details returns the absent value whenever the title cannot be
   recovered from the detail page, and never a Book without a title. *)
C10_TitleOrAbsent ==
    (DetailsDone /\ ~result.raised /\ adapter.html.transport = "ok") =>
      /\ adapter.html.title = Absent => result.val.none
      /\ ~result.val.none => result.val.book.title # PyNone

\* the texts an upstream or the code uses for "no value"
Sentinels == {Wu, Unknown, UnknownTitle, UnknownAuthor, NoScoreYet, "N/A"}
OptionalFields(b) == {b.author, b.score, b.scorer}

\* the Books a finished adapter call returned
ReturnedBooks ==
    IF adapter.pc # "done" \/ result.raised \/ result.val.none THEN {}
    ELSE IF adapter.op = "search"
      THEN {result.val.books[i] : i \in DOMAIN result.val.books}
      ELSE {result.val.book}

(* C11: in every Book an adapter returns, from search and from
   get_book_details, no optional field holds a sentinel text: a field the
   upstream omitted or filled with a placeholder is None. *)
C11_NoSentinel ==
    \A b \in ReturnedBooks : OptionalFields(b) \cap Sentinels = {}

\* the records of a reply that carry both identity fields, in order
WithIdentity(data) == SelectSeq(data, LAMBDA r : r.id # Absent /\ r.name # Absent)

\* book b is record r as extracted: identity and every field that was found
AsExtracted(b, r) ==
    /\ b.id = r.id /\ b.title = r.name
    /\ r.author # Absent => b.author = r.author
    /\ r.score # Absent => b.score = r.score
    /\ r.scorer # Absent /\ adapter.src = "ys" => b.scorer = r.scorer

\* the books returned are exactly the records `kept`, each as extracted
ReturnsRecords(kept) ==
    IF kept = <<>> /\ adapter.src = "ys"
      THEN result.val.none
      ELSE /\ ~result.val.none
           /\ Len(result.val.books) = Len(kept)
           /\ \A i \in DOMAIN kept : AsExtracted(result.val.books[i], kept[i])

ListReplied ==
    /\ SearchDone /\ adapter.up.transport = "ok"
    /\ \/ adapter.up.kind = "list"
       \/ adapter.up.kind = "json" /\ adapter.up.success

HtmlListReplied == ListReplied /\ adapter.up.kind = "list"

(* C12 (as claimed): whenever a result list is turned into books, a record is
   kept if and only if both its id and its title were recovered, and the
   records kept carry their fields as extracted. *)
C12_KeptIffIdentity == ListReplied => ReturnsRecords(WithIdentity(adapter.up.data))

(* C12 (amended): when the HTML result list of youshu.me is parsed, a result
   block is kept if and only if both its id and its title were recovered,
   whatever was found of author, score and scorer count, and the kept records
   carry the fields found; the records of a JSON reply (ypshuo, uaa) are all
   kept, a missing id or title being replaced by a default. *)
C12_HtmlKeptIffIdentity ==
    /\ HtmlListReplied => ReturnsRecords(WithIdentity(adapter.up.data))
    /\ (ListReplied /\ adapter.up.kind = "json") =>
         IF adapter.up.data = <<>> /\ adapter.src = "ys"
           THEN result.val.none
           ELSE ~result.val.none /\ Len(result.val.books) = Len(adapter.up.data)

C12_Witness ==
    /\ HtmlListReplied
    /\ adapter.up.data = <<Raw(Absent, Absent, "A", "8.5", "12"),
                           Raw("9", "V", Absent, "7.0", Absent)>>
    /\ ~result.val.none /\ Len(result.val.books) = 1
    /\ result.val.books[1].id = "9" /\ result.val.books[1].score = "7.0"

CeilDiv(T, P) == (T + P - 1) \div P

(* C13: total_pages computed from the upstream total count T at page size 20
   is ceil(T / 20) for every T >= 0; T = 0 or a missing count gives 0. *)
C13_CeilOfTotal ==
    (HtmlListReplied /\ ~result.val.none) =>
      result.val.total_pages =
        CeilDiv(IF IsNone(adapter.up.total) THEN 0 ELSE Val(adapter.up.total), 20)

\* the adapter is inside or has just finished a search or get_book_details call
InCall == adapter.op \in {"search", "details"}

(* C18: the strategy of the ys adapter is fixed at construction: it is the
   JSON-API strategy exactly when the configured base_url is
   "https://www.ypshuo.com/" and the HTML-scraping strategy otherwise, and no
   step of a search or get_book_details call changes the strategy or the base
   host of the adapter. *)
C18_StrategyFixed ==
    /\ [](/\ adapter.strategy \in {"ypshuo", "youshume"}
          /\ (adapter.strategy = "ypshuo" <=> adapter.base_url = YpshuoUrl))
    /\ [][/\ adapter'.strategy = adapter.strategy
          /\ adapter'.base_url = adapter.base_url]_vars

\* a ys call has completed on an adapter built for the other host, and a ys
\* search has completed on the one built for ypshuo
C18_Witness ==
    /\ InCall /\ adapter.pc = "done" /\ adapter.src = "ys"
    /\ adapter.base_url # YpshuoUrl /\ adapter.strategy = "youshume"
    /\ adapter.op = "details"

\* the comments request of UaaSource.get_book_details is in flight
CommentsAsked == adapter.pc = "comments"

\* the book of the detail page held in adapter.info, without reviews
BookOfDetailPage ==
    Book(adapter.book_id, NoneIfWu(adapter.info.novel_name),
         NoneIfWu(adapter.info.author_name), NoneIfWu(adapter.info.score), PyNone)

(* C30: in the hs adapter a failure of the comments request, after the
   detail page was fetched, never turns the detail fetch into a failure: the
   Book is returned with the fields parsed from the detail page and an empty
   review list; the comments request is made at most once and only after the
   detail page request succeeded. *)
C30_CommentsFailureKeepsBook ==
    /\ []((adapter.pc = "done" /\ OnlyCommentsFailed /\ adapter.failed) =>
            (/\ ~result.raised /\ ~result.val.none
             /\ result.val.book = BookOfDetailPage))
    /\ [](CommentsAsked =>
            (adapter.src = "hs" /\ adapter.op = "details"
               /\ adapter.html.transport = "ok" /\ ~adapter.info.empty))
    /\ [][CommentsAsked' =>
            (adapter.pc = "request" \/ (CommentsAsked /\ adapter' = adapter))]_vars

\* the comments request timed out after a detail page with a title
C30_Witness ==
    /\ adapter.pc = "done" /\ OnlyCommentsFailed /\ adapter.failed
    /\ ~result.val.none /\ result.val.book.title = "x"
    /\ result.val.book.reviews = 0

----------------------------------------------------------------------------
(* Properties of the canonical-catalog lookups *)

QDone == adapter.pc = "done"
QSearchDone == QDone /\ adapter.op = "search_book"
QDetailsDone == QDone /\ adapter.op = "get_book_details"

NetworkFailure == adapter.met.transport # "ok"

\* the embedded data cannot be parsed, or a value has not the type the code
\* reads it with
ParseFailure ==
    /\ ~NetworkFailure
    /\ \/ adapter.met.script = "bad_json"
       \/ adapter.met.script = "json" /\ adapter.met.shape = "null"
       \/ QSearchDone /\ \E i \in DOMAIN adapter.met.records : ~adapter.met.records[i].dict
       \/ QDetailsDone /\ adapter.met.desc = PyNone

\* the script node or one of the objects around the data is missing
MissingContainer ==
    /\ ~NetworkFailure
    /\ \/ adapter.met.script = "none"
       \/ adapter.met.script = "json" /\ adapter.met.shape = "missing"

\* the data is there, but a field of a record or of bookInfo is missing
MissingItemField ==
    /\ ~NetworkFailure /\ ~ParseFailure /\ ~MissingContainer
    /\ \/ QSearchDone /\ \E i \in DOMAIN adapter.met.records :
              Absent \in {adapter.met.records[i].bName, adapter.met.records[i].bAuth,
                          adapter.met.records[i].bid}
       \/ QDetailsDone /\ Absent \in {adapter.met.bookName, adapter.met.desc}

\* search_book returned an empty result, get_book_details returned None
QEmptyResult ==
    IF QSearchDone THEN result.val.books = <<>> /\ result.val.total = 0
    ELSE result.val.none

(* C23 as stated: the canonical-catalog lookups never raise to their caller;
   for any network failure, missing field or parse failure search_book
   returns an empty result and get_book_details returns None. *)
C23_TroubleGivesEmpty ==
    QDone =>
      /\ ~result.raised
      /\ (NetworkFailure \/ ParseFailure \/ MissingContainer \/ MissingItemField)
           => QEmptyResult

(* C23, amended: the lookups never raise; a network failure, a parse failure
   or a missing script node or enclosing object gives the empty result /
   None; a missing field of a record or of bookInfo alone does not: the
   record (the details) is returned with None (an empty intro) in its place. *)
C23_NeverRaises ==
    QDone =>
      /\ ~result.raised
      /\ (NetworkFailure \/ ParseFailure \/ MissingContainer) => QEmptyResult
      /\ (MissingItemField /\ QSearchDone) =>
           /\ Len(result.val.books) = Len(adapter.met.records)
           /\ \A i \in DOMAIN adapter.met.records :
                 result.val.books[i] = QBook(adapter.met.records[i])
      /\ (MissingItemField /\ QDetailsDone) =>
           /\ ~result.val.none
           /\ adapter.met.bookName = Absent => result.val.name = PyNone
           /\ adapter.met.desc = Absent => result.val.intro = ""

\* a timed-out search of page MaxPages asked with return_metadata gave the
\* empty metadata
C23_Witness ==
    /\ QSearchDone /\ adapter.met.transport = "timeout" /\ adapter.return_metadata
    /\ adapter.page = MaxPages /\ ~result.raised
    /\ result.val = QResult(TRUE, <<>>, MaxPages)

----------------------------------------------------------------------------
(* Part 5: two commands at once.  Every command is a task of its own: its
   locals (main.py 188-280, 622-700) live in the task, and the plugin object
   (main.py 22-61) is what the tasks share.  One task runs until it suspends
   at a network request or returns; the other one may run then. *)

\* The locals of the running command.
Locals ==
    <<cmd, pc, args, book_name, item_index, page_to_fetch, search_results,
      max_pages, novel_id, reviews, session, msgs, reqs, search_info, fetched,
      latest_id, attempt, failed>>

\* The locals of a task that handles no command yet.
IdleLocals ==
    <<"none", "idle", <<>>, <<>>, None, 0, <<>>, 0, 0, 0, "none", <<>>, <<>>,
      NoResult, 0, None, 0, NoFailure>>

\* The event loop resumes the other task.
Switch ==
    /\ parked # <<>>
    /\ parked' = Locals
    /\ cmd' = parked[1] /\ pc' = parked[2] /\ args' = parked[3]
    /\ book_name' = parked[4] /\ item_index' = parked[5]
    /\ page_to_fetch' = parked[6] /\ search_results' = parked[7]
    /\ max_pages' = parked[8] /\ novel_id' = parked[9] /\ reviews' = parked[10]
    /\ session' = parked[11] /\ msgs' = parked[12] /\ reqs' = parked[13]
    /\ search_info' = parked[14] /\ fetched' = parked[15]
    /\ latest_id' = parked[16] /\ attempt' = parked[17] /\ failed' = parked[18]
    /\ UNCHANGED <<api, adapter, result, user_states, resolved, pending>>

\* The commands and the upstream replies of the two tasks: a keyword alone or
\* with an item number; a failed request, a full page, or the page of one book.
CArgLists == {<<Word("Foo")>>, <<Word("Foo"), Num(MaxItem)>>}

CUpstream(a, p) ==
    {up \in YsUpstream(a, p) :
       \/ up.t = "error"
       \/ /\ up.success
          /\ \A i \in DOMAIN up.data : up.data[i].id # 0 /\ up.data[i].matched
          /\ \/ up.t = "redirect"
             \/ up.t = "json" /\ Len(up.data) = MaxBooks /\ up.total = Some(MaxPages)
             \/ up.t = "list" /\ Len(up.data) = MaxBooks
                  /\ up.total = Some(MaxPages * YsHtmlResultsPerPage)}

CDetailOutcomes == {"ok", "timeout"}
CDetailPages == {pg \in DetailPages : pg.name /\ pg.image}

InitConcurrent ==
    /\ api \in {1, 2}
    /\ InitHandler
    /\ adapter = "none" /\ result = "none"
    /\ NoStateManager
    /\ pending = NoCommand
    /\ parked = IdleLocals

NextConcurrent ==
    \/ \E a \in CArgLists : HsInvoke(a)
    \/ \E up \in CUpstream(1, page_to_fetch) : HsSearchRespond(up)
    \/ \E up \in CUpstream(1, page_to_fetch) : HsRefetchRespond(up)
    \/ HsDetailRespond(TRUE)
    \/ \E ok \in BOOLEAN : HsCommentsRespond(ok, MaxReviews)
    \/ \E a \in CArgLists : YsInvoke(a)
    \/ \E up \in CUpstream(api, page_to_fetch) : YsSearchRespond(up)
    \/ \E o \in CDetailOutcomes, pg \in CDetailPages : YsDetailRespond(o, pg)
    \/ YsImageRespond("ok")
    \/ Finish
    \/ Switch

SpecConcurrent == InitConcurrent /\ [][NextConcurrent]_vars

----------------------------------------------------------------------------
(* Properties of two commands at once *)

\* the step resumes the other task
Resumes == parked' # parked

(* C22: commands that run at once are independent.  Whatever the order in
   which the two tasks run between their network requests, no step changes
   the plugin's fields; the locals of the suspended command change in no step,
   and it resumes with exactly the locals it suspended with; so the page and
   the position a command indexes are the ones of the backend configured, as
   when it runs alone. *)
C22_Independent ==
    /\ [][api' = api]_vars
    /\ [][Resumes => parked' = Locals /\ Locals' = parked]_vars
    /\ [](Indexed => IndexedWith(PageSizeInForce))

\* One command is suspended at its search request while the other one has
\* been answered with the details of the book it asked for.
C22_Witness ==
    /\ parked # <<>> /\ parked[1] = "ys" /\ parked[2] = "search1"
    /\ cmd = "hs" /\ pc = "done" /\ item_index = Some(MaxItem)
    /\ novel_id # 0 /\ LastMsgKind = "detail"

----------------------------------------------------------------------------
(* Part 6: a command that keeps session state (spec section 4.3 and the
   scheduling model).  The command consults the user's state, fetches the
   page it was asked for, and updates the state after the fetch.  pending is
   the command in progress. *)

Command(pc_, user_id, search_type, page, outcome) ==
    [pc |-> pc_, user_id |-> user_id, search_type |-> search_type, page |-> page,
     outcome |-> outcome]

\* how a fetch ends: with a page, with an absent result, with an error, or
\* rejected by the upstream
FetchOutcomes == {"ok", "absent", "error", "rejected"}

\* what a fetch brings: a result page and the page count, or nothing
Fetched(books, maxp) == [books |-> books, max_pages |-> maxp]

FetchedPages ==
    {Fetched(q, MaxPages) :
       q \in {r \in SeqsUpTo(StateBooks, MaxCached) :
                /\ Len(r) \in {1, MaxCached}
                /\ \A i \in DOMAIN r : r[i].id = (IF i % 2 = 1 THEN "7" ELSE "8")}}

Fetches(outcome) == IF outcome = "ok" THEN FetchedPages ELSE {Fetched(<<>>, 0)}

\* the user's state as get_state returns it
StateOf(states, user_id) == GetState(states, user_id)[user_id]

CommandWritesAlways(outcome) == TRUE

\* state is updated only after a fetch fully succeeds
CommandWrites(outcome) == outcome = "ok"

\* the command starts: the state of the user is consulted, the fetch is issued
CommandInvoke(user_id, search_type, page) ==
    /\ pending = NoCommand
    /\ user_states' = GetState(user_states, user_id)
    /\ resolved' = Call("get_state", user_id, 0, "", Some(user_states'[user_id]))
    /\ pending' = Command("fetching", user_id, search_type, page, "none")
    /\ UNCHANGED <<hvars, avars, parked>>

\* the fetch returned
CommandFetchRespond(outcome, f) ==
    /\ pending.pc = "fetching"
    /\ pending' = [pending EXCEPT !.pc = "done", !.outcome = outcome]
    /\ IF CommandWrites(outcome)
         THEN /\ user_states' = UpdateState(user_states, pending.user_id, "Foo",
                                            pending.page, f.max_pages,
                                            pending.search_type, f.books)
              /\ resolved' = Call("update_state", pending.user_id, 0, "", None)
         ELSE UNCHANGED <<user_states, resolved>>
    /\ UNCHANGED <<hvars, avars, parked>>

\* the command returned
CommandReturn ==
    /\ pending.pc = "done"
    /\ pending' = NoCommand
    /\ UNCHANGED <<hvars, avars, svars, parked>>

InitCommand ==
    /\ api = 1
    /\ InitHandler
    /\ adapter = "none" /\ result = "none"
    /\ NoStateManager
    /\ Alone

NextCommandState ==
    \/ \E u \in Users, t \in SearchTypes, p \in 1..MaxPages : CommandInvoke(u, t, p)
    \/ \E o \in FetchOutcomes : \E f \in Fetches(o) : CommandFetchRespond(o, f)
    \/ CommandReturn

SpecCommand == InitCommand /\ [][NextCommandState]_vars

----------------------------------------------------------------------------
(* Properties of a command that keeps session state *)

\* no user's state, as get_state returns it, changes in the step
StatesKept == \A u \in Users : StateOf(user_states', u) = StateOf(user_states, u)

FetchReturns == pending.pc = "fetching" /\ pending'.pc = "done"

\* the state of the command's user holds the command's page and type and what
\* the fetch brought, and nothing of what it held before
WrittenAtOnce ==
    \E f \in FetchedPages :
       user_states' = UpdateState(user_states, pending.user_id, "Foo",
                                  pending.page, f.max_pages, pending.search_type,
                                  f.books)

(* C21: a command whose fetch fails (absent result, error, or rejection)
   leaves the state of every user as it was before the command; no step before
   the return of the fetch writes state, and the step after a fetch that
   succeeded writes all five fields of the user's state at once. *)
C21_FailedFetchKeepsState ==
    /\ [][pending'.pc = "fetching" => StatesKept]_vars
    /\ [][FetchReturns /\ pending'.outcome # "ok" => StatesKept]_vars
    /\ [][FetchReturns /\ pending'.outcome = "ok" => WrittenAtOnce]_vars
    /\ [][pending'.pc = "none" => StatesKept]_vars

\* A command of another type for another page failed, and the user's state is
\* the one an earlier command wrote.
C21_Witness ==
    /\ pending.pc = "done" /\ pending.outcome = "error"
    /\ pending.user_id = "u1" /\ pending.search_type = "hs" /\ pending.page = 1
    /\ "u1" \in DOMAIN user_states
    /\ user_states["u1"].search_type = "ys"
    /\ user_states["u1"].current_page = MaxPages
    /\ Len(user_states["u1"].results) = MaxCached

====
